---- MODULE Spec2Model ----
(***************************************************************************)
(* A model of ProjectInsight's analysis core:                              *)
(*   - core/cache_manager.py      CacheManager (incremental cache)          *)
(*   - core/parallel_manager.py   ParallelManager.execute_map_reduce        *)
(*   - semantics/semantic_link_analyzer.py  analyze_semantic_links          *)
(*   - builders/component_builder.py        build_component_graph_data      *)
(* File names, FQNs and glob patterns are sequences of one-character        *)
(* strings, so that prefix tests, splitting at "." and glob matching are    *)
(* computed the way the Python code computes them.                          *)
(***************************************************************************)
EXTENDS Integers, Sequences, FiniteSets, TLC

VARIABLES
    files,               \* the source tree: path -> content, Unreadable or Absent
    disk,                \* the cache directory: [real |-> ..., tmp |-> ...]
    cache_data,          \* CacheManager.cache_data: key -> [hash, data]
    dirty,               \* CacheManager.dirty
    config_fingerprint,  \* CacheManager.config_fingerprint
    pc,                  \* where the orchestrating process stands
    ret,                 \* what the last operation was and what it returned
    rt,                  \* history: the update/save/reload sequence in progress
    run,                 \* analyze_semantic_links: the last run's outcome
    mr,                  \* execute_map_reduce: the executor, futures and results
    gb,                  \* build_component_graph_data: inputs, locals, output
    rd,                  \* render_component_graph: inputs, components, output
    wz                   \* the wizard loop of ProjectProcessor.run

vars == <<files, disk, cache_data, dirty, config_fingerprint, pc, ret, rt, run, mr, gb, rd, wz>>

(***************************************************************************)
(* Strings as character sequences                                          *)
(***************************************************************************)

\* str.startswith(prefix)
StartsWith(s, prefix) ==
    /\ Len(s) >= Len(prefix)
    /\ SubSeq(s, 1, Len(prefix)) = prefix

\* sep.join(parts)
RECURSIVE Join(_, _)
Join(parts, sep) ==
    IF parts = <<>> THEN <<>>
    ELSE IF Len(parts) = 1 THEN parts[1]
    ELSE parts[1] \o sep \o Join(Tail(parts), sep)

\* str.split(sep) for a one-character separator
RECURSIVE SplitFrom(_, _, _)
SplitFrom(s, sep, cur) ==
    IF s = <<>> THEN <<cur>>
    ELSE IF Head(s) = sep THEN <<cur>> \o SplitFrom(Tail(s), sep, <<>>)
    ELSE SplitFrom(Tail(s), sep, Append(cur, Head(s)))

Split(s, sep) == SplitFrom(s, sep, <<>>)

(***************************************************************************)
(* The source tree                                                          *)
(***************************************************************************)

Unreadable == "<unreadable>"
Absent == "<absent>"

\* Resolved absolute paths, as sequences of path segments.
ProjectRoot == << <<"r">> >>
PathA == << <<"r">>, <<"a">> >>
PathB == << <<"r">>, <<"s">>, <<"b">> >>
PathDotted == << <<"r">>, <<".", ".", "x">> >>
PathOutside == << <<"o">>, <<"a">> >>

Paths == {PathA, PathB, PathDotted, PathOutside}

\* The files under the project root.
InRoot == {p \in Paths : Len(p) > Len(ProjectRoot) /\ SubSeq(p, 1, Len(ProjectRoot)) = ProjectRoot}

Contents == {"c1", "c2"}

\* The contents the environment gives each file in the cache's state machine:
\* only PathA is edited or made unreadable (deleted, no permission).
ContentChoices(p) ==
    IF p = PathA THEN Contents \cup {Unreadable} ELSE {"c1"}

(***************************************************************************)
(* CacheManager                                                             *)
(***************************************************************************)

CACHE_VERSION == "1.1.3"
OlderVersion == "1.1.2"

Fingerprints == {"fpA", "fpB"}

None == [none |-> TRUE]
NoKey == <<>>

PathSep == <<"/">>

\* os.path.relpath(path, start) on resolved paths, as a list of segments
RECURSIVE CommonLen(_, _)
CommonLen(p, q) ==
    IF p = <<>> \/ q = <<>> THEN 0
    ELSE IF Head(p) = Head(q) THEN 1 + CommonLen(Tail(p), Tail(q))
    ELSE 0

RelPath(path, start) ==
    LET i == CommonLen(path, start)
        ups == [n \in 1..(Len(start) - i) |-> <<".", ".">>]
        rel == ups \o SubSeq(path, i + 1, Len(path))
    IN  IF rel = <<>> THEN <<".">> ELSE Join(rel, PathSep)

\* Path(rel_path).as_posix()
AsPosix(s) == [i \in 1..Len(s) |-> IF s[i] = "\\" THEN "/" ELSE s[i]]

\* The test that rejects a path outside the project root.
IsOutsideRel(rel_path) == StartsWith(rel_path, <<".", ".">>)

\* CacheManager._get_relative_key
GetRelativeKey(file_path) ==
    LET rel_path == RelPath(file_path, ProjectRoot)
    IN  IF IsOutsideRel(rel_path) THEN NoKey ELSE AsPosix(rel_path)

\* hashlib.md5(content).hexdigest(): one digest per content, no collisions
\* among the contents of the model.
Md5(content) == IF content = "c1" THEN "0cc1" ELSE IF content = "c2" THEN "92c2" ELSE "d41d"

\* CacheManager._compute_file_hash: "" when the file cannot be opened
ComputeFileHash(fs, file_path) ==
    IF fs[file_path] \in {Unreadable, Absent} THEN "" ELSE Md5(fs[file_path])

\* The comparison of the stored hash with the current one in get.
HashMatches(stored, current) == stored = current

\* CacheManager.get.  An entry is a non-empty dict, so "not entry" is false.
CacheGet(cd, fs, file_path) ==
    LET relative_path == GetRelativeKey(file_path)
    IN  IF relative_path = NoKey THEN None
        ELSE IF relative_path \notin DOMAIN cd THEN None
        ELSE IF ~HashMatches(cd[relative_path].hash, ComputeFileHash(fs, file_path)) THEN None
        ELSE cd[relative_path].data

\* A cache entry.  "at" is history only: the content the file had when the
\* entry was written; no operation of the cache reads it.
Entry(fs, file_path, data) ==
    [hash |-> ComputeFileHash(fs, file_path), data |-> data, at |-> fs[file_path]]

\* update without the assignment to dirty.
CacheUpdate_Clean(cd, d, fs, file_path, data) ==
    LET relative_path == GetRelativeKey(file_path)
    IN  IF relative_path = NoKey THEN [cache_data |-> cd, dirty |-> d]
        ELSE [cache_data |->
                 [k \in DOMAIN cd \cup {relative_path} |->
                     IF k = relative_path THEN Entry(fs, file_path, data) ELSE cd[k]],
              dirty |-> d]

\* CacheManager.update: the new cache_data and dirty
CacheUpdate(cd, d, fs, file_path, data) ==
    LET relative_path == GetRelativeKey(file_path)
    IN  IF relative_path = NoKey THEN [cache_data |-> cd, dirty |-> d]
        ELSE [cache_data |->
                 [k \in DOMAIN cd \cup {relative_path} |->
                     IF k = relative_path THEN Entry(fs, file_path, data) ELSE cd[k]],
              dirty |-> TRUE]

\* The keys of current_files in prune.
CurrentKeys(current_files) ==
    {GetRelativeKey(p) : p \in current_files} \ {NoKey}

\* prune without the assignment to dirty.
PruneDirty_Forgotten(d, keys_to_remove) == d

\* Whether prune marks the cache dirty.
PruneDirty(d, keys_to_remove) == IF keys_to_remove # {} THEN TRUE ELSE d

\* CacheManager.prune: the new cache_data and dirty
CachePrune(cd, d, current_files) ==
    LET current_keys == CurrentKeys(current_files)
        keys_to_remove == {k \in DOMAIN cd : k \notin current_keys}
    IN  [cache_data |-> [k \in DOMAIN cd \ keys_to_remove |-> cd[k]],
         dirty |-> PruneDirty(d, keys_to_remove)]

\* What a file of the cache directory can hold.
Missing == [kind |-> "missing"]
Truncated == [kind |-> "truncated"]
Garbage == [kind |-> "garbage"]
NoPermission == [kind |-> "unreadable"]
NotADict == [kind |-> "pickle", isdict |-> FALSE]

\* pickle.dump of the payload save builds
Pickled(version, fingerprint, entries) ==
    [kind |-> "pickle", isdict |-> TRUE,
     meta |-> [version |-> version, config_fingerprint |-> fingerprint],
     entries |-> entries]

\* load with the version check alone.
MetaAccepted_VersionOnly(meta, fingerprint) == meta.version = CACHE_VERSION

\* The two checks of load on the stored meta.
MetaAccepted(meta, fingerprint) ==
    /\ meta.version = CACHE_VERSION
    /\ meta.config_fingerprint = fingerprint

\* What the body of load's try block does: the exception it raises, if any,
\* and the entries it would install.  open raises OSError for an unreadable
\* file, pickle.load raises for a truncated or garbage one, .get raises
\* AttributeError when the unpickled object is not a dict.
LoadBody(file, fingerprint) ==
    IF file.kind = "unreadable" THEN [exc |-> "OSError", entries |-> <<>>]
    ELSE IF file.kind = "truncated" THEN [exc |-> "EOFError", entries |-> <<>>]
    ELSE IF file.kind = "garbage" THEN [exc |-> "UnpicklingError", entries |-> <<>>]
    ELSE IF ~file.isdict THEN [exc |-> "AttributeError", entries |-> <<>>]
    ELSE IF ~MetaAccepted(file.meta, fingerprint) THEN [exc |-> "none", entries |-> <<>>]
    ELSE [exc |-> "none", entries |-> file.entries]

\* The except clauses of load: the listed pickle errors, then Exception.
LoadCaught(exc) ==
    \/ exc \in {"UnpicklingError", "EOFError", "AttributeError", "ImportError"}
    \/ exc \in {"OSError"}

\* CacheManager.load: the new cache_data, and whether an exception leaves load.
CacheLoad(cd, file, fingerprint) ==
    IF file = Missing THEN [cache_data |-> <<>>, raised |-> FALSE]
    ELSE LET body == LoadBody(file, fingerprint)
         IN  IF body.exc = "none" THEN [cache_data |-> body.entries, raised |-> FALSE]
             ELSE IF LoadCaught(body.exc) THEN [cache_data |-> <<>>, raised |-> FALSE]
             ELSE [cache_data |-> cd, raised |-> TRUE]

\* save writing the pickle straight into the cache file.
SaveTarget_InPlace == "real"

\* The file save writes the pickle to: cache_file_path.with_suffix(".tmp")
SaveTarget == "tmp"


\* os.replace(src, dst) on the cache directory
OsReplace(d, src, dst) ==
    IF src = dst THEN d ELSE [d EXCEPT ![dst] = d[src], ![src] = Missing]

\* The except clause of save: Exception.
SaveCaught(exc) == exc \in {"OSError", "PicklingError"}

\* The payload save pickles.
SavePayload == Pickled(CACHE_VERSION, config_fingerprint, cache_data)

(***************************************************************************)
(* The cache as a state machine: one CacheManager per process, the source  *)
(* tree and the cache directory as its environment.                        *)
(***************************************************************************)

D1 == [semantic_edges |-> {}]
D2 == [semantic_edges |-> {"e1"}]
Payloads == {D1, D2}

\* The payloads the model stores for each file.
PayloadChoices(p) == IF p = PathA THEN Payloads ELSE {D1}

\* History of the sequence update(F, payload), save, new process with the
\* same fingerprint, load.  "off": not recorded; "none": no sequence under way.
TrackOff == [phase |-> "off"]
NoTrack == [phase |-> "none"]

\* The history after the operation ev (the new value of ret) of a process whose
\* fingerprint is then fp.  A sequence starts with update(F, payload) for F
\* under the project root, goes on with a save that replaced the cache file,
\* a new process with the same fingerprint and its load; it ends when the
\* file F is edited, the cache file is replaced from outside, or the process
\* does anything else that writes the entries.
Tracked(ev, fp) ==
    IF rt.phase = "off" THEN rt
    ELSE IF ev.op = "update"
         THEN IF ev.path \in InRoot
              THEN [phase |-> "updated", path |-> ev.path, data |-> ev.data, fp |-> fp]
              ELSE NoTrack
    ELSE IF rt.phase = "none" THEN rt
    ELSE IF ev.op = "get" THEN rt
    ELSE IF ev.op = "save"
         THEN IF rt.phase = "updated" /\ ev.st = "ok" THEN [rt EXCEPT !.phase = "saved"] ELSE rt
    ELSE IF ev.op = "start"
         THEN IF rt.phase = "saved" /\ fp = rt.fp THEN [rt EXCEPT !.phase = "fresh"] ELSE NoTrack
    ELSE IF ev.op = "load"
         THEN IF rt.phase = "fresh" THEN [rt EXCEPT !.phase = "loaded"] ELSE NoTrack
    ELSE IF ev.op = "edit"
         THEN IF ev.path = rt.path THEN NoTrack ELSE rt
    ELSE NoTrack
NoRun == [phase |-> "off"]
NoMr == [phase |-> "off"]
NoGb == [phase |-> "off"]
NoRd == [phase |-> "off"]
NoWz == [phase |-> "off"]

InitCache ==
    /\ files = [p \in Paths |-> "c1"]
    /\ disk = [real |-> Missing, tmp |-> Missing]
    /\ cache_data = <<>>
    /\ dirty = FALSE
    /\ config_fingerprint \in Fingerprints
    /\ pc = "idle"
    /\ ret = [op |-> "start"]
    /\ rt = TrackOff
    /\ run = NoRun
    /\ mr = NoMr
    /\ gb = NoGb
    /\ rd = NoRd
    /\ wz = NoWz

\* CacheManager.load
Load ==
    /\ pc = "idle"
    /\ LET r == CacheLoad(cache_data, disk.real, config_fingerprint)
       IN  /\ cache_data' = r.cache_data
           /\ ret' = [op |-> "load", raised |-> r.raised]
    /\ UNCHANGED <<files, disk, dirty, config_fingerprint, pc, run, mr, gb, rd, wz>>
    /\ rt' = Tracked(ret', config_fingerprint')

\* CacheManager.get
Get(file_path) ==
    /\ pc = "idle"
    /\ ret' = [op |-> "get", path |-> file_path, val |-> CacheGet(cache_data, files, file_path)]
    /\ UNCHANGED <<files, disk, cache_data, dirty, config_fingerprint, pc, run, mr, gb, rd, wz>>
    /\ rt' = Tracked(ret', config_fingerprint')

\* CacheManager.update
Update(file_path, data) ==
    /\ pc = "idle"
    /\ LET r == CacheUpdate(cache_data, dirty, files, file_path, data)
       IN  /\ cache_data' = r.cache_data
           /\ dirty' = r.dirty
    /\ ret' = [op |-> "update", path |-> file_path, data |-> data]
    /\ UNCHANGED <<files, disk, config_fingerprint, pc, run, mr, gb, rd, wz>>
    /\ rt' = Tracked(ret', config_fingerprint')

\* CacheManager.prune
Prune(current_files) ==
    /\ pc = "idle"
    /\ LET r == CachePrune(cache_data, dirty, current_files)
       IN  /\ cache_data' = r.cache_data
           /\ dirty' = r.dirty
    /\ ret' = [op |-> "prune", known |-> current_files,
               removed |-> DOMAIN cache_data \ CurrentKeys(current_files) # {}]
    /\ UNCHANGED <<files, disk, config_fingerprint, pc, run, mr, gb, rd, wz>>
    /\ rt' = Tracked(ret', config_fingerprint')

\* The except block of save: the temporary file is removed when it exists
\* ("removed"); a failing os.remove is suppressed and leaves it ("left").
SaveFailed(exc, base, cleanup) ==
    /\ disk' = IF cleanup = "removed" /\ disk[SaveTarget] # Missing
               THEN [disk EXCEPT ![SaveTarget] = Missing] ELSE disk
    /\ pc' = "idle"
    /\ ret' = [op |-> "save", st |-> "failed", base |-> base, raised |-> ~SaveCaught(exc)]
    /\ UNCHANGED <<files, cache_data, dirty, config_fingerprint, run, mr, gb, rd, wz>>
    /\ rt' = Tracked(ret', config_fingerprint')

\* CacheManager.save, up to open(temp_path, "wb")
SaveBegin(cleanups) ==
    /\ pc = "idle"
    /\ IF ~dirty
       THEN /\ ret' = [op |-> "save", st |-> "noop", base |-> disk.real, raised |-> FALSE]
            /\ UNCHANGED <<files, disk, cache_data, dirty, config_fingerprint, pc, run, mr, gb, rd, wz>>
            /\ rt' = Tracked(ret', config_fingerprint')
       ELSE \/ /\ disk' = [disk EXCEPT ![SaveTarget] = Truncated]
               /\ pc' = "save_dump"
               /\ ret' = [op |-> "save", st |-> "open", base |-> disk.real, raised |-> FALSE]
               /\ UNCHANGED <<files, cache_data, dirty, config_fingerprint, run, mr, gb, rd, wz>>
               /\ rt' = Tracked(ret', config_fingerprint')
            \/ \E c \in cleanups : SaveFailed("OSError", disk.real, c)

\* CacheManager.save: pickle.dump into the open file
SaveDump(cleanups) ==
    /\ pc = "save_dump"
    /\ \/ /\ disk' = [disk EXCEPT ![SaveTarget] = SavePayload]
          /\ pc' = "save_replace"
          /\ ret' = [ret EXCEPT !.st = "dumped"]
          /\ UNCHANGED <<files, cache_data, dirty, config_fingerprint, run, mr, gb, rd, wz>>
          /\ rt' = Tracked(ret', config_fingerprint')
       \/ \E exc \in {"OSError", "PicklingError"}, c \in cleanups : SaveFailed(exc, ret.base, c)

\* CacheManager.save: os.replace(temp_path, cache_file_path), then dirty = False
SaveReplace(cleanups) ==
    /\ pc = "save_replace"
    /\ \/ /\ disk' = OsReplace(disk, SaveTarget, "real")
          /\ dirty' = FALSE
          /\ pc' = "idle"
          /\ ret' = [ret EXCEPT !.st = "ok"]
          /\ UNCHANGED <<files, cache_data, config_fingerprint, run, mr, gb, rd, wz>>
          /\ rt' = Tracked(ret', config_fingerprint')
       \/ \E c \in cleanups : SaveFailed("OSError", ret.base, c)

\* A later run constructs a new CacheManager (CacheManager.__init__).
NewProcess(fingerprint) ==
    /\ cache_data' = <<>>
    /\ dirty' = FALSE
    /\ config_fingerprint' = fingerprint
    /\ pc' = "idle"
    /\ UNCHANGED <<files, disk, run, mr, gb, rd, wz>>
    /\ rt' = Tracked(ret', config_fingerprint')

\* The process has returned from its operation and ends; the next one starts.
Restart(fingerprint) ==
    /\ pc = "idle"
    /\ ret' = [op |-> "start"]
    /\ NewProcess(fingerprint)

\* The process is killed inside save; the next one starts.
Kill(fingerprint) ==
    /\ pc # "idle"
    /\ ret' = [op |-> "killed", base |-> ret.base, payload |-> SavePayload]
    /\ NewProcess(fingerprint)

\* Between operations the source tree changes: a file is edited, or it is
\* deleted or made unreadable.
EditFile(file_path, content) ==
    /\ pc = "idle"
    /\ content \in ContentChoices(file_path) \ {files[file_path]}
    /\ files' = [files EXCEPT ![file_path] = content]
    /\ ret' = [op |-> "edit", path |-> file_path]
    /\ UNCHANGED <<disk, cache_data, dirty, config_fingerprint, pc, run, mr, gb, rd, wz>>
    /\ rt' = Tracked(ret', config_fingerprint')

\* The entries of a cache file an older release wrote.
OlderEntries == (GetRelativeKey(PathA) :> Entry([p \in Paths |-> "c1"], PathA, D1))

\* What else the cache file can become between runs: deleted, damaged, made
\* unreadable, or written by an older release of the program.
ForeignFiles ==
    {Missing, Garbage, NoPermission, NotADict}
    \cup {Pickled(OlderVersion, f, OlderEntries) : f \in Fingerprints}

ForeignCacheFile(file) ==
    /\ pc = "idle"
    /\ file \in ForeignFiles \ {disk.real}
    /\ disk' = [disk EXCEPT !.real = file]
    /\ ret' = [op |-> "foreign"]
    /\ UNCHANGED <<files, cache_data, dirty, config_fingerprint, pc, run, mr, gb, rd, wz>>
    /\ rt' = Tracked(ret', config_fingerprint')

PruneChoices == {{}, {PathA}, {PathB}, {PathA, PathB, PathOutside}}

\* Any sequence of operations on the cache, of edits and of new processes; a
\* failing save always removes its temporary file here.
NextCache ==
    \/ Load
    \/ \E p \in Paths : Get(p)
    \/ \E p \in Paths : \E d \in PayloadChoices(p) : Update(p, d)
    \/ \E s \in PruneChoices : Prune(s)
    \/ SaveBegin({"removed"})
    \/ SaveDump({"removed"})
    \/ SaveReplace({"removed"})
    \/ \E f \in Fingerprints : Restart(f)
    \/ \E p \in Paths : \E c \in ContentChoices(p) : EditFile(p, c)
    \/ \E f \in ForeignFiles : ForeignCacheFile(f)

SpecCache == InitCache /\ [][NextCache]_vars

\* What an earlier run can have left as the cache file.
EarlierRunFiles ==
    {Missing, Garbage} \cup {Pickled(CACHE_VERSION, f, OlderEntries) : f \in Fingerprints}

\* One CacheManager from its construction on (CacheManager.__init__), over
\* the cache file an earlier run left.
InitManager ==
    /\ files = [p \in Paths |-> "c1"]
    /\ disk \in {[real |-> f, tmp |-> Missing] : f \in EarlierRunFiles}
    /\ cache_data = <<>>
    /\ dirty = FALSE
    /\ config_fingerprint \in Fingerprints
    /\ pc = "idle"
    /\ ret = [op |-> "start"]
    /\ rt = TrackOff
    /\ run = NoRun
    /\ mr = NoMr
    /\ gb = NoGb
    /\ rd = NoRd
    /\ wz = NoWz

\* Any sequence of load, get, update, prune and save on that one manager,
\* and of edits of the source files; nothing else writes the cache file.
NextManager ==
    \/ Load
    \/ \E p \in Paths : Get(p)
    \/ \E p \in Paths : \E d \in PayloadChoices(p) : Update(p, d)
    \/ \E s \in PruneChoices : Prune(s)
    \/ SaveBegin({"removed"})
    \/ SaveDump({"removed"})
    \/ SaveReplace({"removed"})
    \/ \E p \in Paths : \E c \in ContentChoices(p) : EditFile(p, c)

SpecManager == InitManager /\ [][NextManager]_vars

\* The same operations with the history of update/save/reload sequences
\* recorded; prune and outside changes of the cache file end a sequence and
\* are left out.
InitRoundTrip ==
    /\ files = [p \in Paths |-> "c1"]
    /\ disk = [real |-> Missing, tmp |-> Missing]
    /\ cache_data = <<>>
    /\ dirty = FALSE
    /\ config_fingerprint \in Fingerprints
    /\ pc = "idle"
    /\ ret = [op |-> "start"]
    /\ rt = NoTrack
    /\ run = NoRun
    /\ mr = NoMr
    /\ gb = NoGb
    /\ rd = NoRd
    /\ wz = NoWz

NextRoundTrip ==
    \/ Load
    \/ \E p \in Paths : Get(p)
    \/ \E p \in Paths : \E d \in PayloadChoices(p) : Update(p, d)
    \/ SaveBegin({"removed"})
    \/ SaveDump({"removed"})
    \/ SaveReplace({"removed"})
    \/ \E f \in Fingerprints : Restart(f)
    \/ \E p \in Paths : \E c \in ContentChoices(p) : EditFile(p, c)

SpecRoundTrip == InitRoundTrip /\ [][NextRoundTrip]_vars

\* save step by step: every step can fail, the removal of the temporary file
\* can fail too, and the process can be killed between any two steps.
NextSave ==
    \/ Load
    \/ \E d \in Payloads : Update(PathA, d)
    \/ Update(PathB, D1)
    \/ SaveBegin({"removed", "left"})
    \/ SaveDump({"removed", "left"})
    \/ SaveReplace({"removed", "left"})
    \/ \E f \in Fingerprints : Restart(f)
    \/ \E f \in Fingerprints : Kill(f)

SpecSave == InitCache /\ [][NextSave]_vars


(***************************************************************************)
(* ParallelManager.execute_map_reduce                                       *)
(*                                                                         *)
(* executor.map cuts the items into chunks of chunksize, submits one        *)
(* future per chunk, and yields the results of the futures in the order of  *)
(* submission; a worker runs a whole chunk and the chunk's future fails     *)
(* when the task raises for one of its items.                               *)
(***************************************************************************)

MaxItems == 3
MaxChunkSize == 2
MaxWorkers == 2

ItemValues == {"x", "y"}
Context == "ctx"

\* The sequences over S of length at most n.
SeqsUpTo(S, n) == UNION {[1..k -> S] : k \in 0..n}

\* The pure task: its result for an item and the shared context.
TaskResult(item, ctx) == <<"result", item, ctx>>

\* The list a sequential map of the task over the items produces.
SequentialMap(items, ctx) == [i \in 1..Len(items) |-> TaskResult(items[i], ctx)]

\* The number of chunks executor.map cuts n items into.
NumChunks(n, chunksize) == (n + chunksize - 1) \div chunksize

\* The positions of the items of chunk c.
ChunkRange(c, n, chunksize) ==
    {i \in 1..n : (c - 1) * chunksize < i /\ i <= c * chunksize}

\* A worker processing a chunk where it skips the items the task raises for.
ProcessChunk_SkipFailures(items, bad, ctx, first, last) ==
    LET good == {i \in first..last : items[i] \notin bad}
        RECURSIVE Pick(_)
        Pick(i) == IF i > last THEN <<>>
                   ELSE IF i \in good THEN <<TaskResult(items[i], ctx)>> \o Pick(i + 1)
                   ELSE Pick(i + 1)
    IN  [failed |-> FALSE, results |-> Pick(first)]

\* A worker processing a chunk: the list of the task's results, or the
\* exception of the first item the task raises for.
ProcessChunk(items, bad, ctx, first, last) ==
    IF \E i \in first..last : items[i] \in bad
    THEN [failed |-> TRUE, results |-> <<>>]
    ELSE [failed |-> FALSE, results |-> [j \in 1..(last - first + 1) |-> TaskResult(items[first + j - 1], ctx)]]

\* The future the result iterator waits for: the first one not yet consumed.
NextFuture_AnyFinished(m) ==
    LET finished == {c \in DOMAIN m.fut : m.fut[c].st \in {"done", "failed"}}
        open == {c \in DOMAIN m.fut : m.fut[c].st # "consumed"}
    IN  IF finished # {} THEN CHOOSE c \in finished : \A d \in finished : d <= c
        ELSE CHOOSE c \in open : \A d \in open : c <= d

NextFuture(m) ==
    LET open == {c \in DOMAIN m.fut : m.fut[c].st # "consumed"}
    IN  CHOOSE c \in open : \A d \in open : c <= d

\* The except clause of execute_map_reduce: Exception.
MapReduceCaught(exc) == exc \in {"TaskError"}

InitMapReduce ==
    /\ files = [p \in Paths |-> "c1"]
    /\ disk = [real |-> Missing, tmp |-> Missing]
    /\ cache_data = <<>>
    /\ dirty = FALSE
    /\ config_fingerprint = "fpA"
    /\ pc = "idle"
    /\ ret = [op |-> "start"]
    /\ rt = TrackOff
    /\ run = NoRun
    /\ gb = NoGb
    /\ rd = NoRd
    /\ wz = NoWz
    /\ \E items \in SeqsUpTo(ItemValues, MaxItems), bad \in SUBSET ItemValues,
          chunksize \in 1..MaxChunkSize, max_workers \in 1..MaxWorkers :
          mr = [phase |-> "call", items |-> items, bad |-> bad, chunksize |-> chunksize,
                max_workers |-> max_workers, fut |-> <<>>, buf |-> <<>>, results |-> <<>>,
                order |-> <<>>, propagated |-> FALSE]

MrFrame == UNCHANGED <<files, disk, cache_data, dirty, config_fingerprint, pc, ret, rt, run, gb, rd, wz>>

\* execute_map_reduce up to executor.map: no items, no executor.
MrCall ==
    /\ mr.phase = "call"
    /\ IF Len(mr.items) = 0
       THEN mr' = [mr EXCEPT !.phase = "returned"]
       ELSE mr' = [mr EXCEPT !.phase = "collect",
                      !.fut = [c \in 1..NumChunks(Len(mr.items), mr.chunksize) |->
                                  [st |-> "pending", results |-> <<>>]]]
    /\ MrFrame

\* An idle worker takes the next chunk of the call queue.
MrWorkerTake(c) ==
    /\ mr.phase \in {"collect", "shutdown"}
    /\ c \in DOMAIN mr.fut
    /\ mr.fut[c].st = "pending"
    /\ \A d \in DOMAIN mr.fut : d < c => mr.fut[d].st # "pending"
    /\ Cardinality({d \in DOMAIN mr.fut : mr.fut[d].st = "running"}) < mr.max_workers
    /\ mr' = [mr EXCEPT !.fut[c].st = "running"]
    /\ MrFrame

\* A worker finishes its chunk, in any order among the running ones.
MrWorkerFinish(c) ==
    /\ mr.phase \in {"collect", "shutdown"}
    /\ c \in DOMAIN mr.fut
    /\ mr.fut[c].st = "running"
    /\ LET rng == ChunkRange(c, Len(mr.items), mr.chunksize)
           first == CHOOSE i \in rng : \A j \in rng : i <= j
           last == CHOOSE i \in rng : \A j \in rng : j <= i
           r == ProcessChunk(mr.items, mr.bad, Context, first, last)
       IN  mr' = [mr EXCEPT !.fut[c] = [st |-> IF r.failed THEN "failed" ELSE "done",
                                        results |-> r.results],
                            !.order = Append(@, c)]
    /\ MrFrame

\* The result iterator takes the list of the future it waits for.
MrNextChunk ==
    /\ mr.phase = "collect"
    /\ mr.buf = <<>>
    /\ \E c \in DOMAIN mr.fut : mr.fut[c].st # "consumed"
    /\ LET c == NextFuture(mr)
       IN  /\ mr.fut[c].st = "done"
           /\ mr' = [mr EXCEPT !.buf = mr.fut[c].results, !.fut[c].st = "consumed"]
    /\ MrFrame

\* One turn of the for loop: results.append(result)
MrAppend ==
    /\ mr.phase = "collect"
    /\ mr.buf # <<>>
    /\ mr' = [mr EXCEPT !.results = Append(@, Head(mr.buf)), !.buf = Tail(@)]
    /\ MrFrame

\* The future the iterator waits for has failed: its exception leaves the for
\* loop, the iterator cancels the futures still pending, and the with block
\* waits for the running workers.
MrRaise ==
    /\ mr.phase = "collect"
    /\ mr.buf = <<>>
    /\ \E c \in DOMAIN mr.fut : mr.fut[c].st # "consumed"
    /\ mr.fut[NextFuture(mr)].st = "failed"
    /\ mr' = [mr EXCEPT !.phase = "shutdown",
                        !.propagated = ~MapReduceCaught("TaskError"),
                        !.fut = [c \in DOMAIN mr.fut |->
                                    IF mr.fut[c].st = "pending"
                                    THEN [mr.fut[c] EXCEPT !.st = "cancelled"] ELSE mr.fut[c]]]
    /\ MrFrame

\* Every future has been consumed: the for loop ends.
MrExhausted ==
    /\ mr.phase = "collect"
    /\ mr.buf = <<>>
    /\ \A c \in DOMAIN mr.fut : mr.fut[c].st = "consumed"
    /\ mr' = [mr EXCEPT !.phase = "shutdown"]
    /\ MrFrame

\* The executor has shut down: return results.
MrReturn ==
    /\ mr.phase = "shutdown"
    /\ \A c \in DOMAIN mr.fut : mr.fut[c].st # "running"
    /\ mr' = [mr EXCEPT !.phase = "returned"]
    /\ MrFrame

NextMapReduce ==
    \/ MrCall
    \/ \E c \in 1..MaxItems : MrWorkerTake(c)
    \/ \E c \in 1..MaxItems : MrWorkerFinish(c)
    \/ MrNextChunk
    \/ MrAppend
    \/ MrRaise
    \/ MrExhausted
    \/ MrReturn

SpecMapReduce == InitMapReduce /\ [][NextMapReduce]_vars

(***************************************************************************)
(* One analysis run after another (ProjectProcessor.run up to save, with    *)
(* analyze_semantic_links), the source tree changing in between.            *)
(*                                                                         *)
(* The tree holds two Python files.  What a file's content defines and      *)
(* registers stands for its source text:                                    *)
(*   a, c1:  class A: handlers = [H.h]      (H imported from s.b)            *)
(*   a, c2:  class A: handlers = [H]                                         *)
(*   s/b, c1:  class H: def h(self): ...                                     *)
(*   s/b, c2:  class _Impl: def h(self): ...;  H = _Impl()                   *)
(***************************************************************************)

RunPaths == {PathA, PathB}

Dot == <<".">>
FqnA == <<"a", ".", "A">>
FqnH == <<"s", ".", "b", ".", "H">>
FqnHh == <<"s", ".", "b", ".", "H", ".", "h">>

\* The public classes a source defines and the list elements its classes
\* register, as (enclosing class, FQN of the element).
SourceOf(file_path, content) ==
    IF file_path = PathA /\ content = "c1"
        THEN [classes |-> {FqnA}, collections |-> {<<FqnA, FqnHh>>}]
    ELSE IF file_path = PathA /\ content = "c2"
        THEN [classes |-> {FqnA}, collections |-> {<<FqnA, FqnH>>}]
    ELSE IF file_path = PathB /\ content = "c1"
        THEN [classes |-> {FqnH}, collections |-> {}]
    ELSE [classes |-> {}, collections |-> {}]

\* python_source_root.rglob("*.py")
PyFiles(fs) == {p \in RunPaths : fs[p] # Absent}

\* find_top_level_packages: the names of the top-level directories and modules
\* that hold Python files.
FindTopLevelPackages(fs) == {p[Len(ProjectRoot) + 1] : p \in PyFiles(fs)}

\* quick_ast_scan: the files it could read and parse.
PreScanResults(fs) == {p \in PyFiles(fs) : fs[p] # Unreadable}

\* full_libcst_analysis: the components are those of all scanned files.
AllComponents(fs) == UNION {SourceOf(p, fs[p]).classes : p \in PreScanResults(fs)}

\* s contains sub
Contains(s, sub) ==
    \E i \in 1..(Len(s) - Len(sub) + 1) : SubSeq(s, i, i + Len(sub) - 1) = sub

LocalsMark == <<".", "<", "l", "o", "c", "a", "l", "s", ">", ".">>

NoComponent == <<>>

\* _CollectionRegistrationVisitor._is_internal_fqn
IsInternalFqn(fqn, context_packages) ==
    \E pkg \in context_packages : StartsWith(fqn, pkg \o Dot) \/ fqn = pkg

\* _CollectionRegistrationVisitor._resolve_to_component: the FQN itself when it
\* is a component, else its longest proper dotted prefix that is one, else the
\* FQN.
ResolveToComponent(fqn, components) ==
    IF fqn = <<>> THEN NoComponent
    ELSE IF Contains(fqn, LocalsMark) THEN NoComponent
    ELSE IF fqn \in components THEN fqn
    ELSE LET parts == Split(fqn, ".")
             hits == {i \in 1..(Len(parts) - 1) : Join(SubSeq(parts, 1, i), Dot) \in components}
         IN  IF hits # {}
             THEN Join(SubSeq(parts, 1, CHOOSE i \in hits : \A j \in hits : j <= i), Dot)
             ELSE fqn

\* _worker_analyze_semantic_links on one file: the edges of
\* visit_collection_assign.
WorkerAnalyze(file_path, fs, context_packages, all_components) ==
    LET src == SourceOf(file_path, fs[file_path])
        comps == all_components
    IN  {<<ResolveToComponent(c[1], comps), ResolveToComponent(c[2], comps), "registers">> :
            c \in {d \in src.collections :
                     /\ ResolveToComponent(d[1], comps) # NoComponent
                     /\ IsInternalFqn(d[2], context_packages)
                     /\ ResolveToComponent(d[2], comps) # NoComponent
                     /\ ResolveToComponent(d[1], comps) # ResolveToComponent(d[2], comps)}}

\* The test analyze_semantic_links applies to what get returned.
IsCacheHit(cached_data) == cached_data # None /\ "semantic_edges" \in DOMAIN cached_data

\* The configuration of the runs does not change.
RunFingerprint == "fpA"

\* The source contents the environment chooses from.
SourceChoices == Contents \cup {Absent}

InitRuns ==
    /\ files \in [Paths -> SourceChoices]
    /\ \A p \in Paths \ RunPaths : files[p] = Absent
    /\ disk = [real |-> Missing, tmp |-> Missing]
    /\ cache_data = <<>>
    /\ dirty = FALSE
    /\ config_fingerprint = RunFingerprint
    /\ pc = "idle"
    /\ ret = [op |-> "start"]
    /\ rt = TrackOff
    /\ run = [phase |-> "idle"]
    /\ mr = NoMr
    /\ gb = NoGb
    /\ rd = NoRd
    /\ wz = NoWz

\* Between two runs a file is edited, added or deleted.
SourceEdit(file_path, content) ==
    /\ run.phase \in {"idle", "done"}
    /\ file_path \in RunPaths
    /\ content \in SourceChoices \ {files[file_path]}
    /\ files' = [files EXCEPT ![file_path] = content]
    /\ run' = [phase |-> "idle"]
    /\ UNCHANGED <<disk, cache_data, dirty, config_fingerprint, pc, ret, rt, mr, gb, rd, wz>>

\* ProjectProcessor.run: a new CacheManager, load, the context packages, the
\* scan; then analyze_semantic_links up to the split into cached files and
\* files to process.  Without a context package the run ends at once.
RunStart ==
    /\ run.phase \in {"idle", "done"}
    /\ pc = "idle"
    /\ LET loaded == CacheLoad(<<>>, disk.real, RunFingerprint).cache_data
           context_packages == FindTopLevelPackages(files)
           scanned == PreScanResults(files)
           hits == {p \in scanned : IsCacheHit(CacheGet(loaded, files, p))}
       IN  /\ cache_data' = loaded
           /\ IF context_packages = {}
              THEN run' = [phase |-> "idle"]
              ELSE run' = [phase |-> "map",
                           used_cache |-> loaded # <<>>,
                           files_using_cache |-> hits,
                           files_to_process |-> scanned \ hits,
                           results |-> <<>>,
                           edges |-> UNION {CacheGet(loaded, files, p).semantic_edges : p \in hits}]
    /\ dirty' = FALSE
    /\ config_fingerprint' = RunFingerprint
    /\ ret' = [op |-> "load", raised |-> FALSE]
    /\ UNCHANGED <<files, disk, pc, rt, mr, gb, rd, wz>>

\* execute_map_reduce over files_to_process: the workers' results, one per
\* file, in the order of the files.
RunMap ==
    /\ run.phase = "map"
    /\ run' = [run EXCEPT
                 !.phase = "merge",
                 !.results = [p \in run.files_to_process |->
                                 WorkerAnalyze(p, files, FindTopLevelPackages(files),
                                               AllComponents(files))]]
    /\ UNCHANGED <<files, disk, cache_data, dirty, config_fingerprint, pc, ret, rt, mr, gb, rd, wz>>

\* The entry analyze_semantic_links stores for a processed file.
MergedEntry(cd, fs, file_path, edges) ==
    LET cur == CacheGet(cd, fs, file_path)
    IN  IF cur = None THEN [semantic_edges |-> edges]
        ELSE [k \in DOMAIN cur \cup {"semantic_edges"} |->
                 IF k = "semantic_edges" THEN edges ELSE cur[k]]

\* The loop over zip(files_to_process, results): the edges are added and the
\* cache is updated, file by file.
RECURSIVE UpdateAll(_, _, _, _)
UpdateAll(c, fs, todo, results) ==
    IF todo = {} THEN c
    ELSE LET p == CHOOSE q \in todo : TRUE
             u == CacheUpdate(c.cache_data, c.dirty, fs, p,
                              MergedEntry(c.cache_data, fs, p, results[p]))
         IN  UpdateAll(u, fs, todo \ {p}, results)

RunMerge ==
    /\ run.phase = "merge"
    /\ LET u == UpdateAll([cache_data |-> cache_data, dirty |-> dirty], files,
                          DOMAIN run.results, run.results)
       IN  /\ cache_data' = u.cache_data
           /\ dirty' = u.dirty
    /\ run' = [run EXCEPT !.phase = "prune",
                          !.edges = @ \cup UNION {run.results[p] : p \in DOMAIN run.results}]
    /\ UNCHANGED <<files, disk, config_fingerprint, pc, ret, rt, mr, gb, rd, wz>>

\* cache_manager.prune(py_files)
RunPrune ==
    /\ run.phase = "prune"
    /\ LET r == CachePrune(cache_data, dirty, PyFiles(files))
       IN  /\ cache_data' = r.cache_data
           /\ dirty' = r.dirty
    /\ run' = [run EXCEPT !.phase = "save"]
    /\ ret' = [op |-> "prune", known |-> PyFiles(files),
               removed |-> DOMAIN cache_data \ CurrentKeys(PyFiles(files)) # {}]
    /\ UNCHANGED <<files, disk, config_fingerprint, pc, rt, mr, gb, rd, wz>>

\* cache_manager.save(), step by step
RunSave ==
    /\ run.phase = "save"
    /\ ~(pc = "idle" /\ ret.op = "save")
    /\ \/ SaveBegin({"removed"})
       \/ SaveDump({"removed"})
       \/ SaveReplace({"removed"})

\* save has returned: the run goes on to build the graph.
RunDone ==
    /\ run.phase = "save"
    /\ pc = "idle"
    /\ ret.op = "save"
    /\ run' = [run EXCEPT !.phase = "done"]
    /\ UNCHANGED <<files, disk, cache_data, dirty, config_fingerprint, pc, ret, rt, mr, gb, rd, wz>>

NextRuns ==
    \/ \E p \in RunPaths, c \in SourceChoices : SourceEdit(p, c)
    \/ RunStart
    \/ RunMap
    \/ RunMerge
    \/ RunPrune
    \/ RunSave
    \/ RunDone

SpecRuns == InitRuns /\ [][NextRuns]_vars

(***************************************************************************)
(* analyze_semantic_links step by step: the split, the worker pool, the    *)
(* merge loop, with workers that fail and a pool that breaks.              *)
(***************************************************************************)

\* The runs the model follows.
MaxRuns == 2

\* pre_scan_results in the order of its keys (py_files is sorted).
ScanOrder(fs) == SelectSeq(<<PathA, PathB>>, LAMBDA p : p \in PreScanResults(fs))

\* One cache call or one worker task, with the state of the pool and the
\* number of finished analysis stages at that moment.
Event(op, by, use, path, r) ==
    [op |-> op, by |-> by, use |-> use, path |-> path, pool |-> r.pool, stages |-> r.stages]

\* The files of files_to_process whose analysis did not complete in the run r.
Unfinished(r) ==
    {r.files_to_process[i] : i \in {k \in DOMAIN r.files_to_process :
                                      k > Len(r.outcomes) \/ r.outcomes[k] # "ok"}}

\* The merge loop runs after execute_map_reduce has returned while the pool
\* is still at work.
CanMerge_Early(pool) == pool \in {"running", "returned"}

\* The merge loop follows the return of execute_map_reduce (lines 710-717).
CanMerge(pool) == pool = "returned"

InitAnalyze ==
    /\ files \in [Paths -> SourceChoices]
    /\ \A p \in Paths \ RunPaths : files[p] = Absent
    /\ disk = [real |-> Missing, tmp |-> Missing]
    /\ cache_data = <<>>
    /\ dirty = FALSE
    /\ config_fingerprint = RunFingerprint
    /\ pc = "idle"
    /\ ret = [op |-> "start"]
    /\ rt = TrackOff
    /\ run = [phase |-> "idle", n |-> 0, files_to_process |-> <<>>, outcomes |-> <<>>]
    /\ mr = NoMr
    /\ gb = NoGb
    /\ rd = NoRd
    /\ wz = NoWz

\* ProjectProcessor.run up to the call of analyze_semantic_links: a new
\* CacheManager, load, the scan and the first analysis stage.
AzStart ==
    /\ run.phase \in {"idle", "done"}
    /\ pc = "idle"
    /\ run.n < MaxRuns
    /\ FindTopLevelPackages(files) # {}
    /\ cache_data' = CacheLoad(<<>>, disk.real, RunFingerprint).cache_data
    /\ dirty' = FALSE
    /\ config_fingerprint' = RunFingerprint
    /\ ret' = [op |-> "load", raised |-> FALSE]
    /\ run' = [phase |-> "split",
               n |-> run.n + 1,
               prev_unfinished |-> Unfinished(run),
               todo |-> ScanOrder(files),
               files_using_cache |-> <<>>,
               files_to_process |-> <<>>,
               results |-> <<>>,
               outcomes |-> <<>>,
               merged |-> 0,
               pool |-> "idle",
               stages |-> 1,
               trace |-> <<>>]
    /\ UNCHANGED <<files, disk, pc, rt, mr, gb, rd, wz>>

\* One iteration of the loop of lines 691-699.
AzSplitGet ==
    /\ run.phase = "split"
    /\ run.todo # <<>>
    /\ LET file_path == Head(run.todo)
           cached_data == CacheGet(cache_data, files, file_path)
       IN  /\ ret' = [op |-> "get", path |-> file_path, val |-> cached_data]
           /\ run' = [run EXCEPT
                        !.todo = Tail(@),
                        !.files_using_cache =
                            IF IsCacheHit(cached_data) THEN Append(@, file_path) ELSE @,
                        !.files_to_process =
                            IF IsCacheHit(cached_data) THEN @ ELSE Append(@, file_path),
                        !.trace = Append(@, Event("get", "orchestrator", "split", file_path, run))]
    /\ UNCHANGED <<files, disk, cache_data, dirty, config_fingerprint, pc, rt, mr, gb, rd, wz>>

\* Line 701: with files to process the pool is started (lines 705-715);
\* without, the stage is finished.
AzDispatch ==
    /\ run.phase = "split"
    /\ run.todo = <<>>
    /\ run' = IF run.files_to_process = <<>>
              THEN [run EXCEPT !.phase = "prune", !.stages = 2]
              ELSE [run EXCEPT !.phase = "pool", !.pool = "running"]
    /\ UNCHANGED <<files, disk, cache_data, dirty, config_fingerprint, pc, ret, rt, mr, gb, rd, wz>>

\* _worker_analyze_semantic_links on the next file; executor.map yields the
\* results in the order of the items.  The worker gets the path and the
\* context; an exception inside it is caught and gives the empty set.
AzWorker ==
    /\ run.phase = "pool"
    /\ run.pool = "running"
    /\ Len(run.results) < Len(run.files_to_process)
    /\ \E outcome \in {"ok", "raised"} :
          LET file_path == run.files_to_process[Len(run.results) + 1]
              edges == IF outcome = "ok"
                       THEN WorkerAnalyze(file_path, files, FindTopLevelPackages(files),
                                          AllComponents(files))
                       ELSE {}
          IN  run' = [run EXCEPT
                        !.results = Append(@, edges),
                        !.outcomes = Append(@, outcome),
                        !.trace = Append(@, Event("analyze", "worker", "task", file_path, run))]
    /\ UNCHANGED <<files, disk, cache_data, dirty, config_fingerprint, pc, ret, rt, mr, gb, rd, wz>>

\* execute_map_reduce returns: with every result, or, when the pool raised,
\* with the results received so far (parallel_manager.py:86-90).
AzReturn ==
    /\ run.phase = "pool"
    /\ run.pool = "running"
    /\ \E aborted \in BOOLEAN : aborted \/ Len(run.results) = Len(run.files_to_process)
    /\ run' = [run EXCEPT !.phase = "merge", !.pool = "returned"]
    /\ UNCHANGED <<files, disk, cache_data, dirty, config_fingerprint, pc, ret, rt, mr, gb, rd, wz>>

\* One iteration of the loop over zip(files_to_process, results), lines
\* 717-726: get, then update.
AzMerge ==
    /\ run.phase \in {"pool", "merge"}
    /\ CanMerge(run.pool)
    /\ run.merged < Len(run.results)
    /\ LET file_path == run.files_to_process[run.merged + 1]
           edges == run.results[run.merged + 1]
           current_entry == MergedEntry(cache_data, files, file_path, edges)
           u == CacheUpdate(cache_data, dirty, files, file_path, current_entry)
       IN  /\ cache_data' = u.cache_data
           /\ dirty' = u.dirty
           /\ ret' = [op |-> "update", path |-> file_path, data |-> current_entry]
           /\ run' = [run EXCEPT
                        !.merged = @ + 1,
                        !.trace = @ \o <<Event("get", "orchestrator", "merge", file_path, run),
                                         Event("update", "orchestrator", "merge", file_path, run)>>]
    /\ UNCHANGED <<files, disk, config_fingerprint, pc, rt, mr, gb, rd, wz>>

\* The loop is exhausted: analyze_semantic_links returns (line 730).
AzMergeDone ==
    /\ run.phase = "merge"
    /\ run.merged = Len(run.results)
    /\ run' = [run EXCEPT !.phase = "prune", !.stages = 2]
    /\ UNCHANGED <<files, disk, cache_data, dirty, config_fingerprint, pc, ret, rt, mr, gb, rd, wz>>

NextAnalyze ==
    \/ AzStart
    \/ AzSplitGet
    \/ AzDispatch
    \/ AzWorker
    \/ AzReturn
    \/ AzMerge
    \/ AzMergeDone
    \/ RunPrune
    \/ RunSave
    \/ RunDone

SpecAnalyze == InitAnalyze /\ [][NextAnalyze]_vars

\* The semantic edges a run with an empty cache produces on the tree fs.
ColdRunEdges(fs) ==
    UNION {WorkerAnalyze(p, fs, FindTopLevelPackages(fs), AllComponents(fs)) :
              p \in PreScanResults(fs)}

\* C3: whatever the edits, additions and deletions between the runs, a run
\* that uses the loaded cache produces the semantic-edge set a run with an
\* empty cache produces on the same tree.
C3_IncrementalTransparent ==
    run.phase = "done" => run.edges = ColdRunEdges(files)

(***************************************************************************)
(* The component graph builder (builders/component_builder.py).             *)
(* FQNs and glob patterns are sequences of characters.                      *)
(***************************************************************************)

NodeE == <<"m", ".", "e">>
NodeA == <<"m", ".", "a">>
NodeB == <<"n", ".", "b">>
NodeP == <<"n", ".", "p">>
NodeQ == <<"k", ".", "q">>
NodeS == <<"k", ".", "s">>
NodeT == <<"t">>

\* The characters of the FQNs, in the order of their code points.
CharOrder == <<".", "a", "b", "e", "k", "m", "n", "p", "q", "s", "t">>

Ord(c) == CHOOSE i \in 1..Len(CharOrder) : CharOrder[i] = c

\* str.__le__
StrLessEq(s, t) ==
    LET n == IF Len(s) < Len(t) THEN Len(s) ELSE Len(t)
        diff == {i \in 1..n : s[i] # t[i]}
    IN  IF diff = {} THEN Len(s) <= Len(t)
        ELSE LET i == CHOOSE k \in diff : \A j \in diff : k <= j
             IN  Ord(s[i]) < Ord(t[i])

\* The labels of semantic edges, in alphabetical order.
LabelOrder == <<"inherits", "registers">>

LabelRank(l) == CHOOSE i \in 1..Len(LabelOrder) : LabelOrder[i] = l

\* tuple.__le__ on (caller, callee)
EdgeLessEq(e, f) ==
    IF e[1] # f[1] THEN StrLessEq(e[1], f[1]) ELSE StrLessEq(e[2], f[2])

\* tuple.__le__ on (u, v, label)
SemEdgeLessEq(e, f) ==
    IF e[1] # f[1] THEN StrLessEq(e[1], f[1])
    ELSE IF e[2] # f[2] THEN StrLessEq(e[2], f[2])
    ELSE LabelRank(e[3]) <= LabelRank(f[3])

\* sorted(final_nodes)
RECURSIVE SortedNodes(_)
SortedNodes(S) ==
    IF S = {} THEN <<>>
    ELSE LET x == CHOOSE y \in S : \A z \in S : StrLessEq(y, z)
         IN  <<x>> \o SortedNodes(S \ {x})

\* sorted(final_edges)
RECURSIVE SortedEdges(_)
SortedEdges(S) ==
    IF S = {} THEN <<>>
    ELSE LET x == CHOOSE y \in S : \A z \in S : EdgeLessEq(y, z)
         IN  <<x>> \o SortedEdges(S \ {x})

\* sorted(final_semantic_edges)
RECURSIVE SortedSemanticEdges(_)
SortedSemanticEdges(S) ==
    IF S = {} THEN <<>>
    ELSE LET x == CHOOSE y \in S : \A z \in S : SemEdgeLessEq(y, z)
         IN  <<x>> \o SortedSemanticEdges(S \ {x})

\* The elements of a list.
Range(q) == {q[i] : i \in DOMAIN q}

\* fnmatch.fnmatch(name, pat) for patterns of literals, "?" and "*".
RECURSIVE FnMatch(_, _)
FnMatch(name, pat) ==
    IF pat = <<>> THEN name = <<>>
    ELSE IF Head(pat) = "*"
        THEN \E i \in 0..Len(name) : FnMatch(SubSeq(name, i + 1, Len(name)), Tail(pat))
    ELSE IF name = <<>> THEN FALSE
    ELSE /\ (Head(pat) = "?" \/ Head(pat) = Head(name))
         /\ FnMatch(Tail(name), Tail(pat))

\* dict.get(key, default)
DictGet(d, key, default) == IF key \in DOMAIN d THEN d[key] ELSE default

\* The defaults of the focus settings.
DefaultInitialDepth == 2
DefaultMinNodes == 10
DefaultMaxSearchDepth == 7
DefaultMaxNodesForBidirectional == 500

\* The nodes one hop along the edges from the nodes of S.
Successors(S, edges) == {e[2] : e \in {f \in edges : f[1] \in S}}

Transpose(edges) == {<<e[2], e[1]>> : e \in edges}

\* The breadth-first search that keeps only the nodes at the last depth.
RECURSIVE Bfs_FrontierOnly(_, _, _)
Bfs_FrontierOnly(visited, edges, current_depth) ==
    IF current_depth <= 0 THEN visited
    ELSE Bfs_FrontierOnly(Successors(visited, edges), edges, current_depth - 1)

\* The breadth-first search of _perform_focus_analysis: the nodes it has
\* visited when no queued node of depth below current_depth is left.
RECURSIVE Bfs(_, _, _)
Bfs(visited, edges, current_depth) ==
    IF current_depth <= 0 THEN visited
    ELSE Bfs(visited \cup Successors(visited, edges), edges, current_depth - 1)

\* _perform_focus_analysis
PerformFocusAnalysis(all_nodes, all_edges, entrypoints, direction, current_depth) ==
    IF entrypoints = <<>> THEN [nodes |-> all_nodes, edges |-> all_edges]
    ELSE LET seeds == Range(entrypoints) \cap all_nodes
             down == IF direction \in {"both", "downstream"}
                        THEN Bfs(seeds, all_edges, current_depth)
                        ELSE seeds
             final_nodes == IF direction \in {"both", "upstream"}
                               THEN Bfs(down, Transpose(all_edges), current_depth)
                               ELSE down
         IN  [nodes |-> final_nodes,
              edges |-> {e \in all_edges : e[1] \in final_nodes /\ e[2] \in final_nodes}]

\* component_edges
ComponentEdges(call_graph, show_internal_calls) ==
    IF show_internal_calls THEN call_graph ELSE {e \in call_graph : e[1] # e[2]}

\* initial_nodes
InitialNodes(component_edges, semantic_edges, all_components) ==
    {e[1] : e \in component_edges} \cup {e[2] : e \in component_edges}
        \cup {e[1] : e \in semantic_edges} \cup {e[2] : e \in semantic_edges}
        \cup all_components

\* focus_config and focus_config.get("entrypoints")
FocusRequested(focus_config) ==
    /\ focus_config # None
    /\ DictGet(focus_config, "entrypoints", <<>>) # <<>>

\* A focus computation whose fallback gives up the focus.
FocusWithFallback_Unfocused(initial_nodes, component_edges, focus_config, direction, depth) ==
    LET entrypoints == DictGet(focus_config, "entrypoints", <<>>)
        first == PerformFocusAnalysis(initial_nodes, component_edges, entrypoints, direction, depth)
        fallback == /\ direction = "both"
                    /\ Cardinality(first.nodes) >
                         DictGet(focus_config, "max_nodes_for_bidirectional",
                                 DefaultMaxNodesForBidirectional)
                    /\ DictGet(focus_config, "auto_downstream_fallback", TRUE)
    IN  IF fallback
        THEN [res |-> PerformFocusAnalysis(initial_nodes, component_edges, <<>>,
                                           "downstream", depth),
              direction |-> "downstream", calls |-> 2, switched |-> TRUE]
        ELSE [res |-> first, direction |-> direction, calls |-> 1, switched |-> FALSE]

\* One focus computation of build_component_graph_data with the fallback
\* that follows it: the result, the direction afterwards and the number of
\* calls of _perform_focus_analysis.
FocusWithFallback(initial_nodes, component_edges, focus_config, direction, depth) ==
    LET entrypoints == DictGet(focus_config, "entrypoints", <<>>)
        first == PerformFocusAnalysis(initial_nodes, component_edges, entrypoints, direction, depth)
        fallback == /\ direction = "both"
                    /\ Cardinality(first.nodes) >
                         DictGet(focus_config, "max_nodes_for_bidirectional",
                                 DefaultMaxNodesForBidirectional)
                    /\ DictGet(focus_config, "auto_downstream_fallback", TRUE)
    IN  IF fallback
        THEN [res |-> PerformFocusAnalysis(initial_nodes, component_edges, entrypoints,
                                           "downstream", depth),
              direction |-> "downstream", calls |-> 2, switched |-> TRUE]
        ELSE [res |-> first, direction |-> direction, calls |-> 1, switched |-> FALSE]

\* The exclude_nodes filter.
FinalNodes(current_nodes, filtering_config) ==
    LET exclude_patterns == IF filtering_config = None THEN <<>>
                            ELSE DictGet(filtering_config, "exclude_nodes", <<>>)
    IN  IF exclude_patterns # <<>>
        THEN {n \in current_nodes : ~\E i \in DOMAIN exclude_patterns : FnMatch(n, exclude_patterns[i])}
        ELSE current_nodes

FinalEdges(current_edges, final_nodes) ==
    {e \in current_edges : e[1] \in final_nodes /\ e[2] \in final_nodes}

FinalSemanticEdges_Unfiltered(current_semantic_edges, final_nodes) ==
    current_semantic_edges

FinalSemanticEdges(current_semantic_edges, final_nodes) ==
    {e \in current_semantic_edges : e[1] \in final_nodes /\ e[2] \in final_nodes}

NoModule == <<>>

\* node.rsplit(".", 1)[0]
RSplitHead(node) ==
    LET dots == {i \in 1..Len(node) : node[i] = "."}
    IN  SubSeq(node, 1, (CHOOSE i \in dots : \A j \in dots : j <= i) - 1)

\* The module a node is grouped under, NoModule when it is in no group.
ModulePath(node, definition_to_module_map) ==
    LET module_path == DictGet(definition_to_module_map, node, NoModule)
    IN  IF module_path = NoModule /\ "." \in Range(node) THEN RSplitHead(node)
        ELSE module_path

\* nodes_by_module
NodesByModule(final_nodes, definition_to_module_map) ==
    LET order == SortedNodes(final_nodes)
        modules == {ModulePath(n, definition_to_module_map) : n \in final_nodes} \ {NoModule}
    IN  [m \in modules |->
            SelectSeq(order, LAMBDA n : ModulePath(n, definition_to_module_map) = m)]

(***************************************************************************)
(* build_component_graph_data, step by step, on inputs drawn from the sets  *)
(* below.                                                                  *)
(***************************************************************************)

MaxDepth == 1
MinNodesChoice == 3
SearchDepthChoice == 1
BidirectionalChoice == 2

CallEdgeChoices ==
    {<<NodeE, NodeA>>, <<NodeA, NodeB>>, <<NodeP, NodeE>>, <<NodeQ, NodeA>>, <<NodeA, NodeA>>}

SemanticEdgeChoices ==
    {{}, {<<NodeE, NodeS, "registers">>},
     {<<NodeE, NodeS, "registers">>, <<NodeE, NodeB, "inherits">>}}

ComponentChoices == {{}, {NodeT, NodeE}}

DefinitionToModuleMap == (NodeE :> <<"m">>) @@ (<<"n">> :> <<"x">>)

DocstringMap == (NodeE :> "doc")

FilteringConfigs ==
    {None, [exclude_nodes |-> << <<"k", ".", "?">>, <<"*", ".", "a">>, <<"t">> >>]}

DirectionChoices ==
    {[keys |-> {}, direction |-> "both"],
     [keys |-> {"direction"}, direction |-> "upstream"],
     [keys |-> {"direction"}, direction |-> "downstream"]}

DynamicChoices ==
    {[keys |-> {}, enable_dynamic_depth |-> TRUE],
     [keys |-> {"enable_dynamic_depth"}, enable_dynamic_depth |-> FALSE]}

DepthChoices ==
    {[keys |-> {}, initial_depth |-> 0]}
        \cup {[keys |-> {"initial_depth"}, initial_depth |-> d] : d \in 0..MaxDepth}

LimitChoices ==
    {[keys |-> {}, auto_downstream_fallback |-> TRUE],
     [keys |-> {"min_nodes"}, auto_downstream_fallback |-> TRUE],
     [keys |-> {"min_nodes", "max_search_depth", "max_nodes_for_bidirectional"},
      auto_downstream_fallback |-> TRUE],
     [keys |-> {"min_nodes", "max_search_depth", "max_nodes_for_bidirectional",
                "auto_downstream_fallback"},
      auto_downstream_fallback |-> FALSE]}

\* The focus settings with the keys the four choices give.
FocusConfig(d, y, i, l) ==
    [k \in {"entrypoints"} \cup d.keys \cup y.keys \cup i.keys \cup l.keys |->
        CASE k = "entrypoints" -> <<NodeE>>
          [] k = "direction" -> d.direction
          [] k = "enable_dynamic_depth" -> y.enable_dynamic_depth
          [] k = "initial_depth" -> i.initial_depth
          [] k = "min_nodes" -> MinNodesChoice
          [] k = "max_search_depth" -> SearchDepthChoice
          [] k = "max_nodes_for_bidirectional" -> BidirectionalChoice
          [] k = "auto_downstream_fallback" -> l.auto_downstream_fallback]

FocusConfigs ==
    {None, [entrypoints |-> <<>>]}
        \cup {FocusConfig(d, y, i, l) :
                d \in DirectionChoices, y \in DynamicChoices, i \in DepthChoices, l \in LimitChoices}

NoOut == [none |-> TRUE]

InitGraph ==
    /\ files = [p \in Paths |-> "c1"]
    /\ disk = [real |-> Missing, tmp |-> Missing]
    /\ cache_data = <<>>
    /\ dirty = FALSE
    /\ config_fingerprint = RunFingerprint
    /\ pc = "idle"
    /\ ret = [op |-> "start"]
    /\ rt = TrackOff
    /\ run = NoRun
    /\ mr = NoMr
    /\ rd = NoRd
    /\ wz = NoWz
    /\ \E call_graph \in SUBSET CallEdgeChoices, all_components \in ComponentChoices,
          show_internal_calls \in BOOLEAN, filtering_config \in FilteringConfigs,
          focus_config \in FocusConfigs, semantic_edges \in SemanticEdgeChoices :
          gb = [phase |-> "call",
                call_graph |-> call_graph,
                all_components |-> all_components,
                show_internal_calls |-> show_internal_calls,
                filtering_config |-> filtering_config,
                focus_config |-> focus_config,
                semantic_edges |-> semantic_edges,
                component_edges |-> {},
                initial_nodes |-> {},
                current_nodes |-> {},
                current_edges |-> {},
                current_direction |-> "both",
                current_depth |-> 0,
                focused |-> FALSE,
                iterations |-> 0,
                focus_calls |-> 0,
                switches |-> 0,
                out |-> NoOut]

GbFrame ==
    UNCHANGED <<files, disk, cache_data, dirty, config_fingerprint, pc, ret, rt, run, mr, rd, wz>>

\* Lines 105-135: the component edges, the initial nodes and the branch taken.
GbBegin ==
    /\ gb.phase = "call"
    /\ LET component_edges == ComponentEdges(gb.call_graph, gb.show_internal_calls)
           initial_nodes == InitialNodes(component_edges, gb.semantic_edges, gb.all_components)
           focus == FocusRequested(gb.focus_config)
           dynamic == focus /\ DictGet(gb.focus_config, "enable_dynamic_depth", TRUE)
       IN  gb' = [gb EXCEPT
                    !.phase = IF dynamic THEN "loop" ELSE IF focus THEN "fixed" ELSE "filter",
                    !.component_edges = component_edges,
                    !.initial_nodes = initial_nodes,
                    !.current_nodes = initial_nodes,
                    !.current_edges = component_edges,
                    !.current_direction = IF focus THEN DictGet(gb.focus_config, "direction", "both")
                                          ELSE @,
                    !.current_depth = IF dynamic
                                      THEN DictGet(gb.focus_config, "initial_depth", DefaultInitialDepth)
                                      ELSE @]
    /\ GbFrame

\* An iteration of the loop that goes on to the next depth although the
\* minimum number of nodes is reached.
GbLoopIter_NoEarlyStop ==
    /\ gb.phase = "loop"
    /\ LET max_search_depth == DictGet(gb.focus_config, "max_search_depth", DefaultMaxSearchDepth)
           r == FocusWithFallback(gb.initial_nodes, gb.component_edges, gb.focus_config,
                                  gb.current_direction, gb.current_depth)
           stop == gb.current_depth = max_search_depth
       IN  /\ gb.current_depth <= max_search_depth
           /\ gb' = [gb EXCEPT
                       !.phase = IF stop THEN "filter" ELSE "loop",
                       !.current_nodes = r.res.nodes,
                       !.current_edges = r.res.edges,
                       !.current_direction = r.direction,
                       !.current_depth = IF stop THEN @ ELSE @ + 1,
                       !.focused = TRUE,
                       !.iterations = @ + 1,
                       !.focus_calls = @ + r.calls,
                       !.switches = @ + (IF r.switched THEN 1 ELSE 0)]
    /\ GbFrame

\* An iteration of the loop that does not increase the depth.
GbLoopIter_DepthStuck ==
    /\ gb.phase = "loop"
    /\ LET min_nodes == DictGet(gb.focus_config, "min_nodes", DefaultMinNodes)
           max_search_depth == DictGet(gb.focus_config, "max_search_depth", DefaultMaxSearchDepth)
           r == FocusWithFallback(gb.initial_nodes, gb.component_edges, gb.focus_config,
                                  gb.current_direction, gb.current_depth)
           stop == Cardinality(r.res.nodes) >= min_nodes \/ gb.current_depth = max_search_depth
       IN  /\ gb.current_depth <= max_search_depth
           /\ gb' = [gb EXCEPT
                       !.phase = IF stop THEN "filter" ELSE "loop",
                       !.current_nodes = r.res.nodes,
                       !.current_edges = r.res.edges,
                       !.current_direction = r.direction,
                       !.focused = TRUE,
                       !.iterations = @ + 1,
                       !.focus_calls = @ + r.calls,
                       !.switches = @ + (IF r.switched THEN 1 ELSE 0)]
    /\ GbFrame

\* One iteration of the loop of lines 136-171.
GbLoopIter ==
    /\ gb.phase = "loop"
    /\ LET min_nodes == DictGet(gb.focus_config, "min_nodes", DefaultMinNodes)
           max_search_depth == DictGet(gb.focus_config, "max_search_depth", DefaultMaxSearchDepth)
           r == FocusWithFallback(gb.initial_nodes, gb.component_edges, gb.focus_config,
                                  gb.current_direction, gb.current_depth)
           stop == Cardinality(r.res.nodes) >= min_nodes \/ gb.current_depth = max_search_depth
       IN  /\ gb.current_depth <= max_search_depth
           /\ gb' = [gb EXCEPT
                       !.phase = IF stop THEN "filter" ELSE "loop",
                       !.current_nodes = r.res.nodes,
                       !.current_edges = r.res.edges,
                       !.current_direction = r.direction,
                       !.current_depth = IF stop THEN @ ELSE @ + 1,
                       !.focused = TRUE,
                       !.iterations = @ + 1,
                       !.focus_calls = @ + r.calls,
                       !.switches = @ + (IF r.switched THEN 1 ELSE 0)]
    /\ GbFrame

\* The loop condition of line 136 is false.
GbLoopExit ==
    /\ gb.phase = "loop"
    /\ gb.current_depth > DictGet(gb.focus_config, "max_search_depth", DefaultMaxSearchDepth)
    /\ gb' = [gb EXCEPT !.phase = "filter"]
    /\ GbFrame

\* Lines 172-186: the focus at the fixed depth.
GbFixed ==
    /\ gb.phase = "fixed"
    /\ LET fixed_depth == DictGet(gb.focus_config, "initial_depth", DefaultInitialDepth)
           r == FocusWithFallback(gb.initial_nodes, gb.component_edges, gb.focus_config,
                                  gb.current_direction, fixed_depth)
       IN  gb' = [gb EXCEPT
                    !.phase = "filter",
                    !.current_nodes = r.res.nodes,
                    !.current_edges = r.res.edges,
                    !.current_direction = r.direction,
                    !.current_depth = fixed_depth,
                    !.focused = TRUE,
                    !.focus_calls = @ + r.calls,
                    !.switches = @ + (IF r.switched THEN 1 ELSE 0)]
    /\ GbFrame

\* Lines 188-221: the exclude patterns, the edges between the nodes left, the
\* grouping by module and the returned graph.
GbFilter ==
    /\ gb.phase = "filter"
    /\ LET final_nodes == FinalNodes(gb.current_nodes, gb.filtering_config)
       IN  gb' = [gb EXCEPT
                    !.phase = "done",
                    !.out = [nodes |-> SortedNodes(final_nodes),
                             edges |-> SortedEdges(FinalEdges(gb.current_edges, final_nodes)),
                             nodes_by_module |-> NodesByModule(final_nodes, DefinitionToModuleMap),
                             docstrings |-> DocstringMap,
                             semantic_edges |->
                                 SortedSemanticEdges(FinalSemanticEdges(gb.semantic_edges, final_nodes)),
                             high_level_components |-> gb.all_components]]
    /\ GbFrame

NextGraph ==
    \/ GbBegin
    \/ GbLoopIter
    \/ GbLoopExit
    \/ GbFixed
    \/ GbFilter

SpecGraph == InitGraph /\ [][NextGraph]_vars

(***************************************************************************)
(* The focus step of build_component_graph_data at a fixed depth, run on    *)
(* the same graph and settings at one depth and at the next.                *)
(***************************************************************************)

\* Lines 172-186: the focus at the depth of initial_depth, with the fallback.
FixedDepthFocus(initial_nodes, component_edges, focus_config) ==
    FocusWithFallback(initial_nodes, component_edges, focus_config,
                      DictGet(focus_config, "direction", "both"),
                      DictGet(focus_config, "initial_depth", DefaultInitialDepth))

\* focus_config with initial_depth set to depth.
WithDepth(focus_config, depth) ==
    [k \in DOMAIN focus_config \cup {"initial_depth"} |->
        IF k = "initial_depth" THEN depth ELSE focus_config[k]]

DepthEdgeChoices == CallEdgeChoices \cup {<<NodeQ, NodeP>>}

FixedDepthConfigs ==
    {FocusConfig(d, y, i, l) :
        d \in DirectionChoices, y \in {c \in DynamicChoices : c.keys # {}},
        i \in DepthChoices, l \in LimitChoices}

InitDepth ==
    /\ files = [p \in Paths |-> "c1"]
    /\ disk = [real |-> Missing, tmp |-> Missing]
    /\ cache_data = <<>>
    /\ dirty = FALSE
    /\ config_fingerprint = RunFingerprint
    /\ pc = "idle"
    /\ ret = [op |-> "start"]
    /\ rt = TrackOff
    /\ run = NoRun
    /\ mr = NoMr
    /\ rd = NoRd
    /\ wz = NoWz
    /\ \E call_graph \in SUBSET DepthEdgeChoices, all_components \in ComponentChoices,
          show_internal_calls \in BOOLEAN, focus_config \in FixedDepthConfigs :
          LET component_edges == ComponentEdges(call_graph, show_internal_calls)
          IN  gb = [phase |-> "first",
                    component_edges |-> component_edges,
                    initial_nodes |-> InitialNodes(component_edges, {}, all_components),
                    focus_config |-> focus_config,
                    depth |-> DictGet(focus_config, "initial_depth", DefaultInitialDepth),
                    first |-> NoOut,
                    second |-> NoOut]

\* The focus step at the configured depth.
FocusAtDepth ==
    /\ gb.phase = "first"
    /\ gb' = [gb EXCEPT
                !.phase = "second",
                !.first = FixedDepthFocus(gb.initial_nodes, gb.component_edges, gb.focus_config)]
    /\ GbFrame

\* The focus step on the same graph and settings, one level deeper.
FocusAtNextDepth ==
    /\ gb.phase = "second"
    /\ gb' = [gb EXCEPT
                !.phase = "compared",
                !.second = FixedDepthFocus(gb.initial_nodes, gb.component_edges,
                                           WithDepth(gb.focus_config, gb.depth + 1))]
    /\ GbFrame

NextDepth ==
    \/ FocusAtDepth
    \/ FocusAtNextDepth

SpecDepth == InitDepth /\ [][NextDepth]_vars

(***************************************************************************)
(* render_component_graph (renderers/component_renderer.py): the weakly     *)
(* connected components of the graph, the ones rendered and the nodes       *)
(* filtered out.                                                           *)
(***************************************************************************)

MaxComponentSize == 3

DefaultMinComponentSize == 2

\* u and v of every edge, call or semantic, in both directions.
UndirectedEdges(edges, semantic_edges) ==
    {<<e[1], e[2]>> : e \in Range(edges) \cup Range(semantic_edges)}
        \cup {<<e[2], e[1]>> : e \in Range(edges) \cup Range(semantic_edges)}

\* The nodes of the nx.DiGraph in insertion order: the listed nodes, then the
\* endpoints of edges that are not listed.
GraphNodes(nodes, edges, semantic_edges) ==
    nodes \o SortedNodes(({e[1] : e \in Range(edges) \cup Range(semantic_edges)}
                            \cup {e[2] : e \in Range(edges) \cup Range(semantic_edges)})
                         \ Range(nodes))

\* The nodes connected to those of found, the direction of the edges ignored.
RECURSIVE Connected(_, _)
Connected(found, undirected) ==
    LET more == found \cup Successors(found, undirected)
    IN  IF more = found THEN found ELSE Connected(more, undirected)

\* list(nx.weakly_connected_components(graph)): one component for each node
\* not in an earlier one, in the order of the graph's nodes.
RECURSIVE WeaklyConnectedComponents(_, _, _)
WeaklyConnectedComponents(order, seen, undirected) ==
    IF order = <<>> THEN <<>>
    ELSE IF Head(order) \in seen
        THEN WeaklyConnectedComponents(Tail(order), seen, undirected)
    ELSE LET c == Connected({Head(order)}, undirected)
         IN  <<c>> \o WeaklyConnectedComponents(Tail(order), seen \cup c, undirected)

\* A component that keeps only the components larger than the minimum.
KeepComponent_Strict(c, min_component_size) == Cardinality(c) > min_component_size

\* len(c) >= min_component_size
KeepComponent(c, min_component_size) == Cardinality(c) >= min_component_size

\* filtered_out_components: the nodes of the components not kept.
RECURSIVE FilteredOut(_, _)
FilteredOut(components, min_component_size) ==
    IF components = <<>> THEN <<>>
    ELSE (IF KeepComponent(Head(components), min_component_size) THEN <<>>
          ELSE SortedNodes(Head(components)))
            \o FilteredOut(Tail(components), min_component_size)

\* list.sort(key=len, reverse=True): stable, the largest first.
RECURSIVE SortByLenReverse(_)
SortByLenReverse(components) ==
    IF components = <<>> THEN <<>>
    ELSE LET i == CHOOSE k \in DOMAIN components :
                    /\ \A j \in DOMAIN components :
                          Cardinality(components[j]) <= Cardinality(components[k])
                    /\ \A j \in 1..(k - 1) :
                          Cardinality(components[j]) < Cardinality(components[k])
         IN  <<components[i]>>
                \o SortByLenReverse(SubSeq(components, 1, i - 1)
                                      \o SubSeq(components, i + 1, Len(components)))

RenderEdgeChoices ==
    {<<NodeE, NodeA>>, <<NodeA, NodeB>>, <<NodeP, NodeQ>>, <<NodeA, NodeA>>}

RenderSemanticChoices == {<<NodeB, NodeP, "registers">>, <<NodeQ, NodeS, "inherits">>}

LayoutConfigs ==
    {[stagger_groups |-> 0]}
        \cup {[min_component_size_to_render |-> n] : n \in 1..MaxComponentSize}

SemanticConfigs == {[links |-> <<>>], [enabled |-> FALSE]}

InitRender ==
    /\ files = [p \in Paths |-> "c1"]
    /\ disk = [real |-> Missing, tmp |-> Missing]
    /\ cache_data = <<>>
    /\ dirty = FALSE
    /\ config_fingerprint = RunFingerprint
    /\ pc = "idle"
    /\ ret = [op |-> "start"]
    /\ rt = TrackOff
    /\ run = NoRun
    /\ mr = NoMr
    /\ gb = NoGb
    /\ wz = NoWz
    /\ \E edges \in SUBSET RenderEdgeChoices, semantic_edges \in SUBSET RenderSemanticChoices,
          isolated \in SUBSET {NodeT}, layout_config \in LayoutConfigs,
          semantic_config \in SemanticConfigs :
          rd = [phase |-> "call",
                nodes |-> SortedNodes(InitialNodes(edges, semantic_edges, isolated)),
                edges |-> SortedEdges(edges),
                semantic_edges |-> SortedSemanticEdges(semantic_edges),
                layout_config |-> layout_config,
                semantic_config |-> semantic_config,
                all_components |-> <<>>,
                components_to_render |-> <<>>,
                filtered_out_components |-> <<>>,
                dot_nodes |-> {},
                dot_edges |-> {},
                returned |-> NoOut]

RdFrame ==
    UNCHANGED <<files, disk, cache_data, dirty, config_fingerprint, pc, ret, rt, run, mr, gb, wz>>

\* Lines 239-247 and 303-315: nothing to render without nodes; else the
\* components, kept or filtered out.
RdComponents ==
    /\ rd.phase = "call"
    /\ IF rd.nodes = <<>>
       THEN rd' = [rd EXCEPT !.phase = "returned", !.dot_nodes = {"empty_graph"},
                             !.returned = <<>>]
       ELSE LET min_component_size ==
                    DictGet(rd.layout_config, "min_component_size_to_render",
                            DefaultMinComponentSize)
                all_components ==
                    WeaklyConnectedComponents(
                        GraphNodes(rd.nodes, rd.edges, rd.semantic_edges), {},
                        UndirectedEdges(rd.edges, rd.semantic_edges))
            IN  rd' = [rd EXCEPT
                         !.phase = "sort",
                         !.all_components = all_components,
                         !.components_to_render =
                             SelectSeq(all_components,
                                       LAMBDA c : KeepComponent(c, min_component_size)),
                         !.filtered_out_components =
                             FilteredOut(all_components, min_component_size)]
    /\ RdFrame

\* Line 317
RdSort ==
    /\ rd.phase = "sort"
    /\ rd' = [rd EXCEPT !.phase = "emit",
                        !.components_to_render = SortByLenReverse(@)]
    /\ RdFrame

\* Lines 326-401: a cluster with its nodes for each kept component, then the
\* semantic edges when enabled, then the call edges.
RdEmit ==
    /\ rd.phase = "emit"
    /\ rd' = [rd EXCEPT
                !.phase = "return",
                !.dot_nodes = UNION Range(rd.components_to_render),
                !.dot_edges =
                    (IF DictGet(rd.semantic_config, "enabled", TRUE)
                     THEN Range(rd.semantic_edges) ELSE {}) \cup Range(rd.edges)]
    /\ RdFrame

\* Line 427
RdReturn ==
    /\ rd.phase = "return"
    /\ rd' = [rd EXCEPT !.phase = "returned",
                        !.returned = SortedNodes(Range(rd.filtered_out_components))]
    /\ RdFrame

NextRender ==
    \/ RdComponents
    \/ RdSort
    \/ RdEmit
    \/ RdReturn

SpecRender == InitRender /\ [][NextRender]_vars

(***************************************************************************)
(* The wizard loop of ProjectProcessor.run (core/project_processor.py) with *)
(* InteractiveWizard.run (core/interactive_wizard.py) and the validation of *)
(* the chosen entry point.                                                  *)
(***************************************************************************)

MaxScore == 2

MaxAttempts == 2

MaxNodesBeforeWizard == 300

MinMeaningfulNodes == 5

MaxRecommendations == 5

WizardInitialDepth == 2

\* DEFAULT_VIS_CONFIG["component_interaction_graph"]["focus"]
DefaultFocus ==
    [entrypoints |-> <<>>,
     initial_depth |-> DefaultInitialDepth,
     enable_dynamic_depth |-> TRUE,
     min_nodes |-> DefaultMinNodes,
     max_search_depth |-> DefaultMaxSearchDepth,
     direction |-> "both",
     max_nodes_for_bidirectional |-> DefaultMaxNodesForBidirectional,
     auto_downstream_fallback |-> TRUE]

\* ConfigLoader._merge_configs on a mapping without nested mappings
MergeConfigs(default, user) ==
    [k \in DOMAIN default \cup DOMAIN user |->
        IF k \in DOMAIN user THEN user[k] ELSE default[k]]

\* ConfigLoader(config_path).config: the settings of the file that the loop
\* reads, the focus section merged into its defaults.
LoadConfig(file) ==
    [force_analysis |-> file.force_analysis,
     focus |-> MergeConfigs(DefaultFocus, file.focus),
     exclude_nodes |-> file.exclude_nodes]

\* The file that ConfigLoader.update_config_file writes: each updated key
\* replaces the value in the file.
UpdatedConfig(file, updates) ==
    [k \in DOMAIN file |-> IF k \in DOMAIN updates THEN updates[k] ELSE file[k]]

\* ConfigLoader.update_config_file: the file updated, or left as it was when
\* reading or writing it raised; the exception is logged, not raised.
UpdateConfigFile(file, updates) == {UpdatedConfig(file, updates), file}

\* The dynamic depth loop of build_component_graph_data, from current_depth on.
RECURSIVE DynamicFocus(_, _, _, _, _)
DynamicFocus(initial_nodes, component_edges, focus_config, current_direction, current_depth) ==
    LET r == FocusWithFallback(initial_nodes, component_edges, focus_config,
                               current_direction, current_depth)
    IN  IF \/ Cardinality(r.res.nodes) >= DictGet(focus_config, "min_nodes", DefaultMinNodes)
           \/ current_depth = DictGet(focus_config, "max_search_depth", DefaultMaxSearchDepth)
        THEN r.res.nodes
        ELSE DynamicFocus(initial_nodes, component_edges, focus_config, r.direction,
                          current_depth + 1)

\* graph_data["nodes"] of build_component_graph_data, as a set.
GraphDataNodes(call_graph, all_components, show_calls, filtering_config, focus_config, semantic_edges) ==
    LET component_edges == ComponentEdges(call_graph, show_calls)
        initial_nodes == InitialNodes(component_edges, semantic_edges, all_components)
        initial_depth == DictGet(focus_config, "initial_depth", DefaultInitialDepth)
        direction == DictGet(focus_config, "direction", "both")
        current_nodes ==
            IF ~FocusRequested(focus_config) THEN initial_nodes
            ELSE IF DictGet(focus_config, "enable_dynamic_depth", TRUE)
                THEN IF initial_depth <= DictGet(focus_config, "max_search_depth",
                                                 DefaultMaxSearchDepth)
                        THEN DynamicFocus(initial_nodes, component_edges, focus_config,
                                          direction, initial_depth)
                        ELSE initial_nodes
            ELSE FocusWithFallback(initial_nodes, component_edges, focus_config,
                                   direction, initial_depth).res.nodes
    IN  FinalNodes(current_nodes, filtering_config)

\* ProjectProcessor._needs_wizard
NeedsWizard(config, node_count) ==
    /\ node_count > MaxNodesBeforeWizard
    /\ config.focus.entrypoints = <<>>
    /\ config.exclude_nodes = <<>>
    /\ ~config.force_analysis

\* node_count >= ASSESSMENT_THRESHOLDS["min_meaningful_nodes"]
IsMeaningful(node_count) == node_count >= MinMeaningfulNodes

\* The nodes that analyze_graph_and_recommend scores: those of the graph that
\* start with a context package, in the order of the graph's nodes.
Candidates(nodes, context_packages) ==
    SelectSeq(nodes, LAMBDA n : \E pkg \in context_packages : StartsWith(n, pkg))

\* A sort by score that puts the later of two equal candidates first.
RECURSIVE SortedCandidates_Unstable(_, _)
SortedCandidates_Unstable(candidates, final_scores) ==
    IF candidates = <<>> THEN <<>>
    ELSE LET i == CHOOSE k \in DOMAIN candidates :
                    /\ \A j \in DOMAIN candidates :
                          final_scores[candidates[j]] <= final_scores[candidates[k]]
                    /\ \A j \in (k + 1)..Len(candidates) :
                          final_scores[candidates[j]] < final_scores[candidates[k]]
         IN  << <<candidates[i], final_scores[candidates[i]]>> >>
                \o SortedCandidates_Unstable(SubSeq(candidates, 1, i - 1)
                                               \o SubSeq(candidates, i + 1, Len(candidates)),
                                             final_scores)

\* sorted(final_scores.items(), key=lambda item: item[1], reverse=True):
\* stable, the highest score first.
RECURSIVE SortedCandidates(_, _)
SortedCandidates(candidates, final_scores) ==
    IF candidates = <<>> THEN <<>>
    ELSE LET i == CHOOSE k \in DOMAIN candidates :
                    /\ \A j \in DOMAIN candidates :
                          final_scores[candidates[j]] <= final_scores[candidates[k]]
                    /\ \A j \in 1..(k - 1) :
                          final_scores[candidates[j]] < final_scores[candidates[k]]
         IN  << <<candidates[i], final_scores[candidates[i]]>> >>
                \o SortedCandidates(SubSeq(candidates, 1, i - 1)
                                      \o SubSeq(candidates, i + 1, Len(candidates)),
                                    final_scores)

\* A recommendation list that forgets the failed attempts.
Recommendations_Unfiltered(sorted_candidates, failed_attempts) ==
    LET positive == SelectSeq(sorted_candidates, LAMBDA cand : cand[2] > 0)
    IN  SubSeq(positive, 1, IF Len(positive) < MaxRecommendations
                               THEN Len(positive) ELSE MaxRecommendations)

\* filtered_candidates and recommendations of InteractiveWizard.run
Recommendations(sorted_candidates, failed_attempts) ==
    LET filtered_candidates ==
            SelectSeq(sorted_candidates, LAMBDA cand : cand[1] \notin Range(failed_attempts))
        positive == SelectSeq(filtered_candidates, LAMBDA cand : cand[2] > 0)
    IN  SubSeq(positive, 1, IF Len(positive) < MaxRecommendations
                               THEN Len(positive) ELSE MaxRecommendations)

\* The parser results of the analysed project.
WizardCallGraphs ==
    {CallEdgeChoices, CallEdgeChoices \ {<<NodeP, NodeE>>},
     {<<NodeE, NodeA>>, <<NodeA, NodeB>>}}

WizardSemanticEdges == {<<NodeE, NodeS, "registers">>}

WizardComponents ==
    {{NodeT, NodeE}, {NodeE, NodeA, NodeB, NodeP, NodeQ, NodeS, NodeT}}

WizardContextPackages == {<<"m">>, <<"n">>, <<"k">>}

\* Declared components beside the named ones, outside the context packages
\* and touched by no edge: none, or enough for a graph that needs the wizard.
OtherComponentChoices == {0, MaxNodesBeforeWizard}

\* The scores of analyze_graph_and_recommend: drawn for two of the nodes,
\* tied between the others.
ScoredNodes == {NodeE, NodeQ}

ScoreChoices ==
    {[n \in {NodeE, NodeA, NodeB, NodeP, NodeQ, NodeS} |->
        IF n \in ScoredNodes THEN f[n] ELSE MaxScore - 1] : f \in [ScoredNodes -> 0..MaxScore]}

\* What the operator types for a manual focus and for the exclude patterns.
ManualEntries == {<<>>, <<NodeT>>, <<NodeS, NodeE>>}

ManualPatterns == {<<>>, << <<"k", ".", "*">> >>}

NoChoice == [kind |-> "none", entrypoints |-> <<>>]

NoValidation == [ran |-> FALSE, node_count |-> 0, raised |-> FALSE]

InitWizard ==
    /\ files = [p \in Paths |-> "c1"]
    /\ disk = [real |-> Missing, tmp |-> Missing]
    /\ cache_data = <<>>
    /\ dirty = FALSE
    /\ config_fingerprint = RunFingerprint
    /\ pc = "idle"
    /\ ret = [op |-> "start"]
    /\ rt = TrackOff
    /\ run = NoRun
    /\ mr = NoMr
    /\ gb = NoGb
    /\ rd = NoRd
    /\ \E call_graph \in WizardCallGraphs, all_components \in WizardComponents,
          other_components \in OtherComponentChoices, final_scores \in ScoreChoices :
          wz = [phase |-> "start",
                call_graph |-> call_graph,
                all_components |-> all_components,
                semantic_edges |-> WizardSemanticEdges,
                other_components |-> other_components,
                final_scores |-> final_scores,
                file |-> [force_analysis |-> FALSE, focus |-> <<>>, exclude_nodes |-> <<>>],
                config |-> LoadConfig([force_analysis |-> FALSE, focus |-> <<>>,
                                       exclude_nodes |-> <<>>]),
                nodes |-> <<>>,
                failed_attempts |-> <<>>,
                sorted_candidates |-> <<>>,
                recommendations |-> <<>>,
                choice |-> NoChoice,
                action |-> "proceed",
                validation |-> NoValidation,
                report |-> NoOut]

WzFrame ==
    UNCHANGED <<files, disk, cache_data, dirty, config_fingerprint, pc, ret, rt, run, mr, gb, rd>>

\* Lines 164-180 of ProjectProcessor.run: the full graph, and the wizard when
\* it is needed.
WzStart ==
    /\ wz.phase = "start"
    /\ LET nodes == GraphDataNodes(wz.call_graph, wz.all_components, FALSE, None, None,
                                   wz.semantic_edges)
           total_nodes == Cardinality(nodes) + wz.other_components
       IN  wz' = [wz EXCEPT
                    !.nodes = SortedNodes(nodes),
                    !.phase = IF NeedsWizard(wz.config, total_nodes) THEN "wizard" ELSE "report"]
    /\ WzFrame

\* InteractiveWizard.run: the recommendations shown, the operator's choice,
\* the settings file updated.
WzRun ==
    /\ wz.phase = "wizard"
    /\ Len(wz.failed_attempts) < MaxAttempts
    /\ LET sorted_candidates ==
               SortedCandidates(Candidates(wz.nodes, WizardContextPackages), wz.final_scores)
           recommendations == Recommendations(sorted_candidates, wz.failed_attempts)
           focus(entrypoints) ==
               [focus |-> [entrypoints |-> entrypoints, initial_depth |-> WizardInitialDepth]]
       IN  \/ \E choice \in DOMAIN recommendations :
                 \E file \in UpdateConfigFile(wz.file, focus(<<recommendations[choice][1]>>)) :
                     wz' = [wz EXCEPT
                              !.phase = "chosen",
                              !.sorted_candidates = sorted_candidates,
                              !.recommendations = recommendations,
                              !.choice = [kind |-> "recommended",
                                          entrypoints |-> <<recommendations[choice][1]>>],
                              !.action = "proceed",
                              !.file = file]
           \/ \E entrypoints \in ManualEntries :
                 \E file \in IF entrypoints = <<>> THEN {wz.file}
                             ELSE UpdateConfigFile(wz.file, focus(entrypoints)) :
                     wz' = [wz EXCEPT
                              !.phase = "chosen",
                              !.sorted_candidates = sorted_candidates,
                              !.recommendations = recommendations,
                              !.choice = [kind |-> "manual", entrypoints |-> entrypoints],
                              !.action = "proceed",
                              !.file = file]
           \/ \E patterns \in ManualPatterns :
                 \E file \in IF patterns = <<>> THEN {wz.file}
                             ELSE UpdateConfigFile(wz.file, [exclude_nodes |-> patterns]) :
                     wz' = [wz EXCEPT
                              !.phase = "chosen",
                              !.sorted_candidates = sorted_candidates,
                              !.recommendations = recommendations,
                              !.choice = [kind |-> "filter", entrypoints |-> <<>>],
                              !.action = "proceed",
                              !.file = file]
           \/ \E file \in UpdateConfigFile(wz.file, [force_analysis |-> TRUE]) :
                 wz' = [wz EXCEPT
                          !.phase = "chosen",
                          !.sorted_candidates = sorted_candidates,
                          !.recommendations = recommendations,
                          !.choice = [kind |-> "force", entrypoints |-> <<>>],
                          !.action = "proceed",
                          !.file = file]
           \/ wz' = [wz EXCEPT
                       !.phase = "chosen",
                       !.sorted_candidates = sorted_candidates,
                       !.recommendations = recommendations,
                       !.choice = [kind |-> "exit", entrypoints |-> <<>>],
                       !.action = "exit"]
    /\ WzFrame

\* Lines 183-202 of ProjectProcessor.run with _post_analysis_validation: exit,
\* or the settings reloaded, then report generation when forced, filtered or
\* validated, else the entry point recorded and the wizard again.
WzAfterRun ==
    /\ wz.phase = "chosen"
    /\ IF wz.action = "exit"
       THEN wz' = [wz EXCEPT !.phase = "exit", !.validation = NoValidation]
       ELSE LET config == LoadConfig(wz.file)
                entrypoints == config.focus.entrypoints
            IN  IF config.force_analysis \/ config.exclude_nodes # <<>>
                THEN wz' = [wz EXCEPT !.phase = "report", !.config = config,
                                      !.validation = NoValidation]
                ELSE IF entrypoints = <<>>
                THEN wz' = [wz EXCEPT !.phase = "report", !.config = config,
                                      !.validation = NoValidation]
                ELSE \E raised \in BOOLEAN :
                        LET node_count ==
                                IF raised THEN 0
                                ELSE Cardinality(GraphDataNodes(wz.call_graph,
                                         wz.all_components, FALSE, None, config.focus,
                                         wz.semantic_edges))
                            is_meaningful == ~raised /\ IsMeaningful(node_count)
                        IN  wz' = [wz EXCEPT
                                     !.config = config,
                                     !.validation = [ran |-> TRUE, node_count |-> node_count,
                                                     raised |-> raised],
                                     !.phase = IF is_meaningful THEN "report" ELSE "wizard",
                                     !.failed_attempts =
                                         IF is_meaningful THEN @ ELSE Append(@, entrypoints[1])]
    /\ WzFrame

\* _run_analysis for component_interaction (lines 347-367): the graph built
\* with the focus and the filter of the settings in effect.
WzReport ==
    /\ wz.phase = "report"
    /\ wz' = [wz EXCEPT
                !.phase = "done",
                !.report = [nodes |-> GraphDataNodes(wz.call_graph, wz.all_components, FALSE,
                                                     [exclude_nodes |-> wz.config.exclude_nodes],
                                                     wz.config.focus, wz.semantic_edges)]]
    /\ WzFrame

NextWizard ==
    \/ WzStart
    \/ WzRun
    \/ WzAfterRun
    \/ WzReport

SpecWizard == InitWizard /\ [][NextWizard]_vars

(***************************************************************************)
(* Claims about the cache                                                   *)
(***************************************************************************)

\* C1: for a file F under the project root whose content does not change,
\* after update(F, payload), a save that wrote the cache file, and a new
\* CacheManager with the same fingerprint and version that has called load,
\* get(F) returns exactly payload.
C1_RoundTrip ==
    (rt.phase = "loaded" /\ ret.op = "get" /\ ret.path = rt.path) => ret.val = rt.data

\* C2: get returns a payload only if an entry exists under the file's key and
\* the file is readable now with the content it had at its last update; a
\* file unreadable now, or unreadable at update time, gives absent.
C2_HitSoundness ==
    (ret.op = "get" /\ ret.val # None) =>
        LET k == GetRelativeKey(ret.path)
        IN  /\ k # NoKey
            /\ k \in DOMAIN cache_data
            /\ files[ret.path] \notin {Unreadable, Absent}
            /\ cache_data[k].at = files[ret.path]

\* The cache file is one load accepts: a readable pickled dict whose stored
\* version and fingerprint are the current run's.
StoredAndCurrent(file, fingerprint) ==
    /\ file.kind = "pickle"
    /\ file.isdict
    /\ file.meta.version = CACHE_VERSION
    /\ file.meta.config_fingerprint = fingerprint

\* C4: load never raises, and afterwards the entries in memory are exactly
\* the stored entries when the file is readable and its version and
\* fingerprint are the current ones, and empty in every other case.
C4_LoadAllOrNothing ==
    ret.op = "load" =>
        /\ ~ret.raised
        /\ cache_data = IF StoredAndCurrent(disk.real, config_fingerprint)
                        THEN disk.real.entries ELSE <<>>

\* C4's case: a file with entries and the current version, written under
\* another configuration, has been loaded and discarded whole.
C4_Witness ==
    /\ ret.op = "load"
    /\ disk.real.kind = "pickle"
    /\ disk.real.isdict
    /\ disk.real.entries # <<>>
    /\ disk.real.meta.version = CACHE_VERSION
    /\ disk.real.meta.config_fingerprint # config_fingerprint
    /\ cache_data = <<>>

\* C5: while save runs, and after a kill or an I/O error at any of its steps,
\* the cache file holds the complete content it had before save or the
\* complete new payload, never a partial write; when save fails the cache
\* file is unchanged, dirty stays set and no exception leaves save.
C5_AtomicSave ==
    /\ disk.real.kind # "truncated"
    /\ pc # "idle" => disk.real = ret.base
    /\ (ret.op = "save" /\ ret.st = "ok") => (disk.real = SavePayload /\ ~dirty)
    /\ (ret.op = "save" /\ ret.st = "failed") =>
          (disk.real = ret.base /\ dirty /\ ~ret.raised)
    /\ ret.op = "killed" => disk.real \in {ret.base, ret.payload}

\* C5's case: the process was killed inside save after opening the temporary
\* file, and the cache file still holds the entries saved before.
C5_Witness ==
    /\ ret.op = "killed"
    /\ disk.tmp.kind = "truncated"
    /\ disk.real.kind = "pickle"
    /\ disk.real = ret.base
    /\ disk.real # ret.payload

\* C6 as stated: after prune no entry is left whose key is not the key of a
\* known path, every entry of a known path is unchanged, and the cache is
\* marked dirty.
C6_PruneMarksDirty ==
    [][ret'.op = "prune" =>
          /\ DOMAIN cache_data' = DOMAIN cache_data \cap CurrentKeys(ret'.known)
          /\ \A k \in DOMAIN cache_data' : cache_data'[k] = cache_data[k]
          /\ dirty']_vars

\* C6 amended: after prune no entry is left whose key is not the key of a
\* known path, every entry of a known path is unchanged, and the cache is
\* marked dirty when at least one entry was removed; when none was, the
\* dirty flag keeps its value.
C6_PruneFrame ==
    [][ret'.op = "prune" =>
          /\ DOMAIN cache_data' = DOMAIN cache_data \cap CurrentKeys(ret'.known)
          /\ \A k \in DOMAIN cache_data' : cache_data'[k] = cache_data[k]
          /\ dirty' = (dirty \/ DOMAIN cache_data \ CurrentKeys(ret'.known) # {})]_vars

\* C6's case: a prune has removed one entry and kept another.
C6_Witness ==
    /\ ret.op = "prune"
    /\ ret.removed
    /\ cache_data # <<>>
    /\ dirty

(***************************************************************************)
(* Claims about the map-reduce runner                                       *)
(***************************************************************************)

\* The position of the first item the task raises for (0: none).
FirstFailing(m) ==
    IF \E i \in 1..Len(m.items) : m.items[i] \in m.bad
    THEN CHOOSE i \in 1..Len(m.items) :
             /\ m.items[i] \in m.bad
             /\ \A j \in 1..(i - 1) : m.items[j] \notin m.bad
    ELSE 0

\* C7: when no task raises, execute_map_reduce returns, whatever the number
\* of workers, the chunk size and the order in which the workers finish, the
\* list a sequential map produces: as long as items, results[i] the task's
\* result for items[i].
C7_MapReduceEquivalence ==
    (mr.phase = "returned" /\ FirstFailing(mr) = 0) =>
        mr.results = SequentialMap(mr.items, Context)

\* C7's case: two workers finished three chunks out of submission order and
\* the call has returned.
C7_Witness ==
    /\ mr.phase = "returned"
    /\ FirstFailing(mr) = 0
    /\ Len(mr.results) = 3
    /\ \E i \in 1..(Len(mr.order) - 1) : mr.order[i] > mr.order[i + 1]

C9_Closure ==
    gb.phase = "done" =>
        /\ \A e \in Range(gb.out.edges) :
              e[1] \in Range(gb.out.nodes) /\ e[2] \in Range(gb.out.nodes)
        /\ \A e \in Range(gb.out.semantic_edges) :
              e[1] \in Range(gb.out.nodes) /\ e[2] \in Range(gb.out.nodes)

\* C9's case: a graph returned with self-loops dropped, a focus and exclude
\* patterns, that keeps some call edges and semantic edges and drops others.
C9_Witness ==
    /\ gb.phase = "done"
    /\ ~gb.show_internal_calls
    /\ gb.focused
    /\ gb.filtering_config # None
    /\ gb.out.edges # <<>>
    /\ Range(gb.out.edges) # gb.call_graph
    /\ gb.out.semantic_edges # <<>>
    /\ Range(gb.out.semantic_edges) # gb.semantic_edges

\* C10: after a focus computation of depth at least one that expands
\* downstream, a node that a semantic edge links to a configured entry point
\* of the graph, and that no call edge leads to, is in the focus result.
C10_SemanticReachIncluded ==
    (/\ gb.phase = "filter"
     /\ gb.focused
     /\ gb.current_depth >= 1
     /\ gb.current_direction \in {"both", "downstream"}) =>
        \A e \in gb.semantic_edges :
            (/\ e[1] \in Range(gb.focus_config.entrypoints) \cap gb.initial_nodes
             /\ ~\E c \in gb.component_edges : c[2] = e[2])
                => e[2] \in gb.current_nodes

\* C11: a focus with direction both in which no fallback was triggered
\* returns the entry points of the graph, the nodes within the depth in
\* successor hops of one, and the nodes within the depth in predecessor hops
\* of one, and no other node.
C11_BidirectionalUnion ==
    (/\ gb.phase = "filter"
     /\ gb.focused
     /\ gb.current_direction = "both"
     /\ gb.switches = 0) =>
        LET seeds == Range(gb.focus_config.entrypoints) \cap gb.initial_nodes
        IN  gb.current_nodes =
                Bfs(seeds, gb.component_edges, gb.current_depth)
                    \cup Bfs(seeds, Transpose(gb.component_edges), gb.current_depth)

\* C12 as stated: with dynamic escalation off, the focus step returns at
\* depth d+1 at least as many nodes as at depth d, whatever the fallback
\* setting and threshold.
C12_DepthMonotone ==
    gb.phase = "compared" =>
        Cardinality(gb.second.res.nodes) >= Cardinality(gb.first.res.nodes)

\* C12 amended: with dynamic escalation off, the focus step returns at depth
\* d+1 at least as many nodes as at depth d, unless the fallback to
\* downstream is triggered at depth d+1 and was not triggered at depth d.
C12_DepthMonotoneSameMode ==
    (gb.phase = "compared" /\ ~(gb.second.switched /\ ~gb.first.switched)) =>
        Cardinality(gb.second.res.nodes) >= Cardinality(gb.first.res.nodes)

\* C12's case: the fallback was triggered at both depths and the deeper
\* focus returned more nodes.
C12_Witness ==
    /\ gb.phase = "compared"
    /\ gb.first.switched
    /\ gb.second.switched
    /\ Cardinality(gb.second.res.nodes) > Cardinality(gb.first.res.nodes)

\* The focus result at a depth, in the direction in effect at that depth:
\* the configured one, or downstream once the bidirectional result exceeds
\* the threshold with the fallback enabled.
ResultAtDepth(g, depth) ==
    FocusWithFallback(g.initial_nodes, g.component_edges, g.focus_config,
                      DictGet(g.focus_config, "direction", "both"), depth).res

\* C13: with dynamic depth and initial_depth <= max_search_depth, the depths
\* are tried one at a time from initial_depth upwards, and the focus result
\* kept is the one of the smallest depth that gives at least min_nodes nodes,
\* or of max_search_depth when no depth does; no deeper result is computed.
C13_DynamicDepth ==
    LET initial_depth == DictGet(gb.focus_config, "initial_depth", DefaultInitialDepth)
        max_search_depth == DictGet(gb.focus_config, "max_search_depth", DefaultMaxSearchDepth)
        min_nodes == DictGet(gb.focus_config, "min_nodes", DefaultMinNodes)
    IN  /\ gb.phase = "loop" => gb.iterations = gb.current_depth - initial_depth
        /\ (gb.phase = "filter" /\ gb.iterations > 0) =>
              /\ gb.current_depth \in initial_depth..max_search_depth
              /\ gb.iterations = gb.current_depth - initial_depth + 1
              /\ gb.current_nodes = ResultAtDepth(gb, gb.current_depth).nodes
              /\ gb.current_edges = ResultAtDepth(gb, gb.current_depth).edges
              /\ \/ Cardinality(gb.current_nodes) >= min_nodes
                 \/ gb.current_depth = max_search_depth
              /\ \A k \in initial_depth..(gb.current_depth - 1) :
                    Cardinality(ResultAtDepth(gb, k).nodes) < min_nodes
        /\ (gb.phase = "filter" /\ gb.focused /\ gb.iterations = 0) =>
              ~DictGet(gb.focus_config, "enable_dynamic_depth", TRUE)

\* C13's case: the loop went through several depths and stopped below
\* max_search_depth at the first depth that gave min_nodes nodes.
C13_Witness ==
    /\ gb.phase = "filter"
    /\ gb.iterations >= 3
    /\ gb.current_depth < DictGet(gb.focus_config, "max_search_depth", DefaultMaxSearchDepth)
    /\ Cardinality(gb.current_nodes) >= DictGet(gb.focus_config, "min_nodes", DefaultMinNodes)

\* The bidirectional result a step of the builder computed and discarded
\* when it fell back to downstream.
DiscardedBidirectional(g, depth) ==
    PerformFocusAnalysis(g.initial_nodes, g.component_edges, g.focus_config.entrypoints,
                         "both", depth)

\* C14: when a focus computation falls back, the downstream result that
\* replaces the bidirectional one of the same depth is a subset of it, and a
\* proper subset when the bidirectional result has a node that the
\* downstream search from the entry points does not reach.
C14_FallbackSubset ==
    [][gb'.switches > gb.switches =>
          LET depth == IF gb.phase = "loop" THEN gb.current_depth ELSE gb'.current_depth
              both == DiscardedBidirectional(gb, depth).nodes
              seeds == Range(gb.focus_config.entrypoints) \cap gb.initial_nodes
          IN  /\ gb'.current_nodes \subseteq both
              /\ (\E n \in both : n \notin Bfs(seeds, gb.component_edges, depth))
                    => gb'.current_nodes # both]_vars

\* C14's case: a fallback has replaced a bidirectional result by a smaller
\* downstream result that still has more nodes than the entry point.
C14_Witness ==
    /\ gb.phase = "filter"
    /\ gb.switches = 1
    /\ Cardinality(gb.current_nodes) > 1
    /\ Cardinality(gb.current_nodes) <
          Cardinality(DiscardedBidirectional(gb, gb.current_depth).nodes)

\* The largest number of depth iterations a focus configuration allows.
MaxIterations(focus_config) ==
    LET n == DictGet(focus_config, "max_search_depth", DefaultMaxSearchDepth)
               - DictGet(focus_config, "initial_depth", DefaultInitialDepth) + 1
    IN  IF n > 0 THEN n ELSE 0

\* The number of steps build_component_graph_data has left at most.
StepsLeft(g) ==
    LET max_search_depth == DictGet(g.focus_config, "max_search_depth", DefaultMaxSearchDepth)
    IN  CASE g.phase = "call" -> MaxIterations(g.focus_config) + 3
          [] g.phase = "loop" ->
                (IF g.current_depth <= max_search_depth
                 THEN max_search_depth - g.current_depth + 1 ELSE 0) + 2
          [] g.phase = "fixed" -> 2
          [] g.phase = "filter" -> 1
          [] g.phase = "done" -> 0

\* The builder is at a point from which one of its steps can be taken.
CanStep(g) ==
    \/ g.phase \in {"call", "fixed", "filter"}
    \/ /\ g.phase = "loop"
       /\ \/ g.current_depth <= DictGet(g.focus_config, "max_search_depth", DefaultMaxSearchDepth)
          \/ g.current_depth > DictGet(g.focus_config, "max_search_depth", DefaultMaxSearchDepth)

\* C15: build_component_graph_data returns: until it has, it can take a
\* step, and every step brings the end nearer.  It runs at most
\* max(0, max_search_depth - initial_depth + 1) depth iterations, each with
\* at most two focus computations, and the direction goes from both to
\* downstream at most once and never back.
C15_FocusTerminates ==
    /\ [](/\ gb.phase # "done" => CanStep(gb)
          /\ gb.iterations <= MaxIterations(gb.focus_config)
          /\ gb.focus_calls <= 2 * (IF gb.iterations > 0 THEN gb.iterations ELSE 1)
          /\ gb.switches <= 1)
    /\ [][/\ StepsLeft(gb') < StepsLeft(gb)
          /\ gb'.iterations \in {gb.iterations, gb.iterations + 1}
          /\ gb'.focus_calls - gb.focus_calls <= 2
          /\ gb'.current_direction # gb.current_direction =>
                (/\ gb.phase = "call" \/ gb.current_direction = "both"
                 /\ gb.phase # "call" => gb'.current_direction = "downstream")]_vars

\* C15's case: the graph was returned after several depth iterations, one of
\* which fell back to downstream.
C15_Witness ==
    /\ gb.phase = "done"
    /\ gb.iterations >= 2
    /\ gb.switches = 1
    /\ gb.current_direction = "downstream"
    /\ gb.focus_calls = gb.iterations + 1

\* C16: when no focus entry point is configured, every declared high-level
\* component is among the returned nodes, whatever the self-loop setting and
\* the exclude patterns.
C16_ComponentsRetained ==
    (gb.phase = "done" /\ ~FocusRequested(gb.focus_config)) =>
        gb.all_components \subseteq Range(gb.out.nodes)

\* The dotted prefixes of an FQN, the FQN itself included.
DottedPrefixes(fqn) ==
    LET parts == Split(fqn, ".")
    IN  {Join(SubSeq(parts, 1, i), Dot) : i \in 1..Len(parts)}

\* C17: every returned node is in the group of the module that the
\* definition-to-module map gives for the longest dotted prefix of its FQN
\* that has an entry; a node no prefix of which has an entry is in the group
\* of its FQN's parent segment.
C17_LongestPrefixGrouping ==
    gb.phase = "done" =>
        \A node \in Range(gb.out.nodes) :
            LET hits == DottedPrefixes(node) \cap DOMAIN DefinitionToModuleMap
                longest == CHOOSE h \in hits : \A k \in hits : Len(k) <= Len(h)
                module == IF hits # {} THEN DefinitionToModuleMap[longest]
                          ELSE RSplitHead(node)
            IN  (hits # {} \/ "." \in Range(node)) =>
                    /\ module \in DOMAIN gb.out.nodes_by_module
                    /\ node \in Range(gb.out.nodes_by_module[module])

(***************************************************************************)
(* Claims about the renderer's component filter                            *)
(***************************************************************************)

\* The nodes joined to n by a path of call and semantic edges, direction
\* ignored.
ComponentOf(n) ==
    Bfs({n}, UndirectedEdges(rd.edges, rd.semantic_edges), Len(rd.nodes))

\* The minimum size in effect.
MinComponentSize ==
    DictGet(rd.layout_config, "min_component_size_to_render", DefaultMinComponentSize)

\* C18: the weakly connected components over call and semantic edges
\* partition the nodes; exactly those with at least min_component_size nodes
\* are kept, the largest first; the returned list is exactly the nodes of the
\* smaller ones, sorted; no node is kept and dropped.
C18_ComponentFilter ==
    (rd.phase = "returned" /\ rd.nodes # <<>>) =>
        LET kept == rd.components_to_render
            dropped == rd.returned
        IN  /\ \A i \in DOMAIN rd.all_components :
                  /\ rd.all_components[i] # {}
                  /\ \A n \in rd.all_components[i] : ComponentOf(n) = rd.all_components[i]
            /\ \A i, j \in DOMAIN rd.all_components :
                  i # j => rd.all_components[i] \cap rd.all_components[j] = {}
            /\ UNION Range(rd.all_components) = Range(rd.nodes)
            /\ \A n \in Range(rd.nodes) :
                  IF Cardinality(ComponentOf(n)) >= MinComponentSize
                  THEN ComponentOf(n) \in Range(kept) /\ n \notin Range(dropped)
                  ELSE ComponentOf(n) \notin Range(kept) /\ n \in Range(dropped)
            /\ Range(kept) \subseteq Range(rd.all_components)
            /\ \A i, j \in DOMAIN kept :
                  i < j => (kept[i] # kept[j] /\ Cardinality(kept[i]) >= Cardinality(kept[j]))
            /\ Range(dropped) \subseteq Range(rd.nodes)
            /\ \A i, j \in DOMAIN dropped :
                  i < j => (dropped[i] # dropped[j] /\ StrLessEq(dropped[i], dropped[j]))

\* C18's case: a chain of three nodes joined by call edges was kept ahead of
\* a smaller kept component, and an isolated node was dropped.
C18_Witness ==
    /\ rd.phase = "returned"
    /\ MinComponentSize = 2
    /\ Len(rd.components_to_render) = 2
    /\ rd.components_to_render[1] = {NodeE, NodeA, NodeB}
    /\ rd.all_components[1] # rd.components_to_render[1]
    /\ rd.returned = <<NodeT>>

(***************************************************************************)
(* Claims about the wizard loop                                            *)
(***************************************************************************)

\* The nodes with a score: those of the graph inside a context package.
ScoredCandidates ==
    {n \in Range(wz.nodes) : \E pkg \in WizardContextPackages : StartsWith(n, pkg)}

\* C19: in every round, no FQN of failed_attempts is in the recommendation
\* list shown; the list holds at most five candidates, each with a positive
\* score, in descending score order, and no remaining candidate with a
\* positive score left out scores higher than one shown.
C19_NoRepeatedRecommendation ==
    wz.phase = "chosen" =>
        LET shown == wz.recommendations
            remaining == {n \in ScoredCandidates \ Range(wz.failed_attempts) :
                             wz.final_scores[n] > 0}
        IN  /\ Len(shown) <= MaxRecommendations
            /\ \A i \in DOMAIN shown :
                  /\ shown[i][1] \in remaining
                  /\ shown[i][2] = wz.final_scores[shown[i][1]]
            /\ \A i, j \in DOMAIN shown :
                  i < j => (shown[i][1] # shown[j][1] /\ shown[i][2] >= shown[j][2])
            /\ \A n \in remaining :
                  (\A i \in DOMAIN shown : shown[i][1] # n) =>
                      /\ Len(shown) = MaxRecommendations
                      /\ \A i \in DOMAIN shown : shown[i][2] >= wz.final_scores[n]

\* C19's case: a round after a failed attempt at a candidate with a positive
\* score, with five other candidates shown.
C19_Witness ==
    /\ wz.phase = "chosen"
    /\ wz.failed_attempts # <<>>
    /\ \E n \in Range(wz.failed_attempts) :
          n \in ScoredCandidates /\ wz.final_scores[n] = MaxScore
    /\ Len(wz.recommendations) = MaxRecommendations

\* C20: after the operator chose an entry point, the loop goes on to report
\* generation exactly when the validation raised nothing and the focus graph
\* of that choice has at least min_meaningful_nodes nodes; otherwise the
\* chosen entry point is appended to failed_attempts and the wizard runs
\* again.
C20_ValidationTransition ==
    [][(wz.phase = "chosen" /\ wz.choice.entrypoints # <<>>) =>
          LET focus_nodes ==
                  GraphDataNodes(wz.call_graph, wz.all_components, FALSE, None,
                                 MergeConfigs(DefaultFocus,
                                              [entrypoints |-> wz.choice.entrypoints,
                                               initial_depth |-> WizardInitialDepth]),
                                 wz.semantic_edges)
              enough == Cardinality(focus_nodes) >= MinMeaningfulNodes
          IN  /\ wz'.validation.ran
              /\ wz'.phase = "report" <=> (enough /\ ~wz'.validation.raised)
              /\ wz'.phase = "report" => wz'.failed_attempts = wz.failed_attempts
              /\ wz'.phase # "report" =>
                    /\ wz'.phase = "wizard"
                    /\ wz'.failed_attempts =
                          Append(wz.failed_attempts, wz.choice.entrypoints[1])]_vars

(***************************************************************************)
(* Further claims about the focus step                                     *)
(***************************************************************************)

\* C26: with direction both configured and the fallback enabled, a focus
\* step that computed a result never returns more than
\* max_nodes_for_bidirectional nodes.
C26_FallbackBoundsSize ==
    (/\ gb.phase = "filter"
     /\ gb.focused
     /\ DictGet(gb.focus_config, "direction", "both") = "both"
     /\ DictGet(gb.focus_config, "auto_downstream_fallback", TRUE)) =>
        Cardinality(gb.current_nodes) <=
            DictGet(gb.focus_config, "max_nodes_for_bidirectional",
                    DefaultMaxNodesForBidirectional)

\* C27: with an entry point configured, every node the focus step returns is
\* an entry point of the graph or joined to one by a path of call edges,
\* whatever the depth settings.
C27_FocusSoundness ==
    (gb.phase = "filter" /\ FocusRequested(gb.focus_config)) =>
        LET seeds == Range(gb.focus_config.entrypoints) \cap gb.initial_nodes
            undirected == gb.component_edges \cup Transpose(gb.component_edges)
        IN  gb.current_nodes \subseteq Bfs(seeds, undirected, Cardinality(gb.initial_nodes))

(***************************************************************************)
(* Further claims about the wizard loop                                    *)
(***************************************************************************)

\* C21: when an entry point failed validation and the operator then chose
\* force, the component-interaction analysis that follows is made on the
\* full graph.
C21_ForceGivesFullRun ==
    (/\ wz.phase = "done"
     /\ wz.choice.kind = "force"
     /\ wz.config.force_analysis
     /\ wz.failed_attempts # <<>>) =>
        wz.report.nodes = Range(wz.nodes)

\* C22: no two FQNs of a recommendation list shown have the same owning
\* module.
C22_OnePerModule ==
    wz.phase = "chosen" =>
        \A i, j \in DOMAIN wz.recommendations :
            i # j => ModulePath(wz.recommendations[i][1], <<>>)
                        # ModulePath(wz.recommendations[j][1], <<>>)

\* C23: the candidate list holds every scored node once, in descending score
\* order, candidates of equal score in ascending FQN order; and a further
\* recommendation run on the same input gives the same list.
C23_RankingDeterminism ==
    /\ [](wz.phase = "chosen" =>
            LET sc == wz.sorted_candidates
            IN  /\ {sc[i][1] : i \in DOMAIN sc} = ScoredCandidates
                /\ Len(sc) = Cardinality(ScoredCandidates)
                /\ \A i \in DOMAIN sc : sc[i][2] = wz.final_scores[sc[i][1]]
                /\ \A i, j \in DOMAIN sc :
                      i < j => \/ sc[i][2] > sc[j][2]
                               \/ /\ sc[i][2] = sc[j][2]
                                  /\ StrLessEq(sc[i][1], sc[j][1])
                                  /\ sc[i][1] # sc[j][1])
    /\ [][(wz.phase = "wizard" /\ wz'.phase = "chosen" /\ wz.choice.kind # "none") =>
             wz'.sorted_candidates = wz.sorted_candidates]_vars

\* C23's case: a second recommendation run, on a graph with two candidates of
\* equal score that precede a candidate of lower score.
C23_Witness ==
    /\ wz.phase = "chosen"
    /\ wz.failed_attempts # <<>>
    /\ \E i \in DOMAIN wz.sorted_candidates :
          /\ i + 2 \in DOMAIN wz.sorted_candidates
          /\ wz.sorted_candidates[i][2] = wz.sorted_candidates[i + 1][2]
          /\ wz.sorted_candidates[i + 1][2] > wz.sorted_candidates[i + 2][2]

\* C30: once the wizard loop has started, report generation is reached only
\* when an entry point chosen in the latest round passed validation, or an
\* exclude filter is configured, or force was chosen; and after exit there is
\* no analysis output.
C30_ExitConditions ==
    /\ (/\ wz.phase \in {"report", "done"}
        /\ wz.choice.kind # "none"
        /\ wz.config.focus.entrypoints = wz.choice.entrypoints) =>
          \/ /\ wz.choice.entrypoints # <<>>
             /\ wz.validation.ran
             /\ ~wz.validation.raised
             /\ wz.validation.node_count >= MinMeaningfulNodes
          \/ wz.config.exclude_nodes # <<>>
          \/ wz.choice.kind = "force"
    /\ wz.choice.kind = "exit" => (wz.phase \in {"chosen", "exit"} /\ wz.report = NoOut)

(***************************************************************************)
(* Further claim about the renderer                                        *)
(***************************************************************************)

\* C29: every call edge and semantic edge emitted into the rendered graph has
\* both endpoints among the nodes of the kept components, and no node of the
\* returned dropped list is an endpoint of an emitted edge.
C29_DroppedStayOut ==
    /\ rd.phase \in {"return", "returned"} =>
          \A e \in rd.dot_edges : e[1] \in rd.dot_nodes /\ e[2] \in rd.dot_nodes
    /\ rd.phase = "returned" =>
          \A e \in rd.dot_edges : ~Contains(rd.returned, e[1]) /\ ~Contains(rd.returned, e[2])

(***************************************************************************)
(* Further claim about the cache                                           *)
(***************************************************************************)

\* The cache is clean and load of the cache file would install other entries
\* than those in memory.
CleanAndDiffers ==
    /\ ~dirty
    /\ CacheLoad(cache_data, disk.real, config_fingerprint).cache_data # cache_data

\* C28 as stated: after any sequence of load, get, update, prune and save
\* calls on one CacheManager, whenever dirty is false, load of the cache file
\* would yield exactly the entries in memory.
C28_DirtyFlagInvariant ==
    (pc = "idle" /\ ret.op \in {"load", "get", "update", "prune", "save"}) => ~CleanAndDiffers

\* C28, amended: load establishes that the cache is not clean-and-different,
\* and every step of get, update, prune and save (a failing save included)
\* keeps it so; hence a save skipped as a no-op after a load loses nothing.
C28_DirtyFlagAfterLoad ==
    /\ [][ret'.op = "load" => ~CleanAndDiffers']_vars
    /\ [][(ret'.op \in {"get", "update", "prune", "save"} /\ ~CleanAndDiffers)
             => ~CleanAndDiffers']_vars

\* C28's case: a save skipped as a no-op while entries are in memory, and
\* those entries are the ones of the cache file.
C28_Witness ==
    /\ ret.op = "save"
    /\ ret.st = "noop"
    /\ cache_data # <<>>
    /\ ~CleanAndDiffers

(***************************************************************************)
(* Claims about analyze_semantic_links and the cache                       *)
(***************************************************************************)

\* C24: an entry is written for a file only if the file's analysis completed
\* successfully in this run; and a file whose analysis raised or whose result
\* is missing in one run is analysed again in the next run.
C24_OnlySuccessfulCached ==
    /\ run.phase \in {"pool", "merge", "prune", "save", "done"} =>
          \A k \in DOMAIN run.files_to_process :
              (\E i \in DOMAIN run.trace :
                  run.trace[i].op = "update" /\ run.trace[i].path = run.files_to_process[k])
                  => (k <= Len(run.outcomes) /\ run.outcomes[k] = "ok")
    /\ run.phase \in {"pool", "merge", "prune", "save", "done"} =>
          run.prev_unfinished \subseteq Range(run.files_to_process)

\* C25: every get of the hit/miss split precedes the start of the pool; every
\* update is made by the orchestrator after execute_map_reduce has returned;
\* a worker task makes no cache call and leaves the cache as it is; prune and
\* save come after both analysis stages.
C25_SingleWriter ==
    /\ [](run.phase \in {"split", "pool", "merge", "prune", "save", "done"} =>
            \A i \in DOMAIN run.trace :
                LET e == run.trace[i]
                IN  /\ (e.op = "get" /\ e.use = "split") => e.pool = "idle"
                    /\ e.op = "update" => (e.by = "orchestrator" /\ e.pool = "returned")
                    /\ e.by = "worker" => e.op = "analyze")
    /\ [](ret.op \in {"prune", "save"} => run.stages = 2)
    /\ [][(run.phase = "pool" /\ Len(run'.results) > Len(run.results)) =>
             UNCHANGED <<cache_data, dirty, disk, ret>>]_vars
    /\ [][(cache_data' # cache_data /\ run.phase \in {"pool", "merge"}) =>
             (run.pool = "returned" /\ ret'.op = "update")]_vars

\* C25's case: a run in which some files were hits and others were analysed
\* by the pool and merged, and which went on to save.
C25_Witness ==
    /\ run.phase = "done"
    /\ run.files_using_cache # <<>>
    /\ run.merged > 0
    /\ ret.op = "save"
    /\ ret.st = "ok"

====
